---- MODULE Spec2Model ----
(***************************************************************************)
(* Query routing and multi-patient context assembly of the EHR query agent *)
(* (patients.py, query_analyzer.py, app.py).                               *)
(*                                                                         *)
(* Strings are sequences of one-character strings, so that strip(),        *)
(* lower() and the substring test of the source are computed, not assumed. *)
(* A Python Optional is a sequence of length 0 (None) or 1.                *)
(***************************************************************************)
EXTENDS Integers, Sequences, FiniteSets, TLC

VARIABLES
    \* ---- fuzzy_resolve called on its own (patients.py)
    roster,            \* List[Dict]: the roster handed to the resolver / classifier
    q,                 \* Optional string: the reference handed to fuzzy_resolve
    scores,            \* fuzz.WRatio(q, names[i]) for every roster entry i
    outcome,           \* Optional: what fuzzy_resolve returned
    \* ---- analyze_query_with_slm (query_analyzer.py)
    locked_patient,    \* Optional patient passed in by the caller
    pc,                \* position inside analyze_query_with_slm
    result,            \* the dict being built and returned
    patient_refs,      \* local: surviving references of the multi-patient path
    resolved_patients, \* local of the multi-patient loop
    unresolved_refs,   \* local of the multi-patient loop
    ref_idx,           \* local: next reference the loop resolves (1-based)
    oracle_failed,     \* history: chain.invoke raised
    path,              \* history: the branch the call took
    resolverCalls,     \* history: every fuzzy_resolve call of this analysis
    \* ---- the multi-patient branch of app.py and the context cap
    patients,          \* analysis["resolved_patients"]
    wants_height,      \* "height" in prompt.lower()
    stage,             \* position inside the branch
    pidx,              \* index of the patient the current loop is at (1-based)
    pass_no,           \* next retrieval strategy for that patient
    patient_hits,      \* local: [(h, patient_name)] kept for that patient
    seen_chunk_ids,    \* local: identities kept for that patient
    patient_chunks,    \* dict: patient_name -> list of (h, patient_name)
    emergency_len,     \* local: len(emergency_hits)
    emergency_kept,    \* local: emergency_hits without repeated identity
    context,           \* interleaved_context, with interleaved_sources beside it
    ctx_block,         \* the items joined into the context block
    returned_any,      \* history: patients for whom some call returned a chunk
    merged,            \* history: per patient, the chunks kept for that patient
    last_call,         \* history: the last match_patient_chunks call of the branch
    \* ---- build_roster_from_supabase (patients.py)
    db_rows,           \* res.data: the rows of rag_chunks the query returned
    built,             \* Optional: the roster build_roster_from_supabase returned
    \* ---- the chat session of app.py
    ss_locked_patient, \* st.session_state.locked_patient
    active_patients,   \* st.session_state.active_patients
    messages,          \* st.session_state.messages
    awaiting_disambiguation, \* st.session_state.awaiting_disambiguation
    prompt,            \* Optional: the chat input of the current script run
    run,               \* position of the current script run
    sent,              \* Optional: the message list handed to chat.stream
    ctx_text,          \* Optional: ctx_block as the string it is
    turn               \* history: what the current / last script run did

resolveVars == <<q, scores, outcome>>
analyzeVars == <<locked_patient, pc, result, patient_refs, resolved_patients,
                 unresolved_refs, ref_idx, oracle_failed, path, resolverCalls>>
assembleVars == <<patients, wants_height, stage, pidx, pass_no, patient_hits,
                  seen_chunk_ids, patient_chunks, emergency_len,
                  emergency_kept, context, ctx_block, returned_any, merged,
                  last_call>>
rosterVars == <<db_rows, built>>
sessionVars == <<ss_locked_patient, active_patients, messages,
                 awaiting_disambiguation, prompt, run, sent, ctx_text, turn>>
vars == <<roster, resolveVars, analyzeVars, assembleVars, rosterVars,
          sessionVars>>

(***************************************************************************)
(* Bounds of the model.                                                    *)
(***************************************************************************)
MaxRoster == 6          \* longest roster handed to fuzzy_resolve on its own
MaxAnalyzeRoster == 2   \* longest roster handed to analyze_query_with_slm
MaxRefs == 3            \* longest patient_references list the oracle returns
MaxPatients == 3        \* most resolved patients of a multi-patient decision
MaxHits == 1            \* most rows one retrieval call returns
MaxRows == 3            \* most rows the roster query returns

(***************************************************************************)
(* Python values.                                                          *)
(***************************************************************************)
None == <<>>
Some(x) == <<x>>
Min(a, b) == IF a <= b THEN a ELSE b
Take(s, n) == SubSeq(s, 1, Min(n, Len(s)))
SeqsUpTo(S, n) == UNION {[1..k -> S] : k \in 0..n}

\* str.lower() on the model's alphabet
LowerChar(c) ==
    CASE c = "A" -> "a"
      [] c = "B" -> "b"
      [] c = "C" -> "c"
      [] c = "Q" -> "q"
      [] OTHER -> c

Lower(s) == IF s = <<>> THEN <<>> ELSE [i \in 1..Len(s) |-> LowerChar(s[i])]

RECURSIVE LStrip(_)
LStrip(s) == IF s # <<>> /\ Head(s) = " " THEN LStrip(Tail(s)) ELSE s

RECURSIVE RStrip(_)
RStrip(s) ==
    IF s # <<>> /\ s[Len(s)] = " " THEN RStrip(SubSeq(s, 1, Len(s) - 1)) ELSE s

\* str.strip()
Strip(s) == RStrip(LStrip(s))

\* Python's `a in b` on strings
Contains(b, a) ==
    \E i \in 0..(Len(b) - Len(a)) : SubSeq(b, i + 1, i + Len(a)) = a

\* [x for x in s if P(x)] over indexes, in order
RECURSIVE FilterIdx(_, _, _)
FilterIdx(keep, n, i) ==
    IF i > n THEN <<>>
    ELSE (IF i \in keep THEN <<i>> ELSE <<>>) \o FilterIdx(keep, n, i + 1)

(***************************************************************************)
(* The patient directory the rosters are drawn from.  Patients 1 and 2     *)
(* have ids of which one contains the other; patients 1 and 3 carry the    *)
(* same first and last name under different ids; patient 2 has no last     *)
(* name.                                                                   *)
(***************************************************************************)
Es(n) == [j \in 1..n |-> "e"]

PatientId(i) ==
    CASE i = 1 -> <<"a">>
      [] i = 2 -> <<"a", "b">>
      [] i = 3 -> <<"C">>
      [] OTHER -> <<"d">> \o Es(i - 4)

FirstName(i) ==
    CASE i = 1 -> <<"x">>
      [] i = 2 -> <<"z">>
      [] i = 3 -> <<"x">>
      [] OTHER -> <<"n">> \o Es(i - 4)

LastName(i) ==
    CASE i = 1 -> <<"y">>
      [] i = 2 -> <<>>
      [] i = 3 -> <<"y">>
      [] OTHER -> <<"m">>

Patient(i) ==
    [patient_id |-> PatientId(i), first_name |-> FirstName(i),
     last_name |-> LastName(i), dob |-> <<"1">>]

Directory(n) == [i \in 1..n |-> Patient(i)]

(***************************************************************************)
(* patients.py: fuzzy_resolve                                              *)
(***************************************************************************)
\* the values fuzz.WRatio takes in the model: both sides of the two cut-offs
ScoreVals == {59, 60, 79, 80}

\* names = [f"{r['first_name']} {r['last_name']}".strip() for r in roster]
NameOf(r) == Strip(r.first_name \o <<" ">> \o r.last_name)

\* the scorer is a function of (q, name): equal names score equally
ScoreVectors(ros) ==
    {sc \in [1..Len(ros) -> ScoreVals] :
        \A i, j \in 1..Len(ros) : NameOf(ros[i]) = NameOf(ros[j]) => sc[i] = sc[j]}

\* id_hits = [r for r in roster if q.lower() in r["patient_id"].lower()]
IdHitIdxMut(ros, qs) ==
    {i \in 1..Len(ros) : Contains(ros[i].patient_id, Lower(qs))}
IdHitIdx(ros, qs) ==
    {i \in 1..Len(ros) : Contains(Lower(ros[i].patient_id), Lower(qs))}

\* best[1] >= 80
ResolvesByNameMut(s) == s >= 79
ResolvesByName(s) == s >= 80

\* score >= 60
IsCandidateMut(s) == s >= 59
IsCandidate(s) == s >= 60

\* the index process.extractOne / process.extract put first among S:
\* the highest score, the earliest entry among equals
BestIdx(sc, S) ==
    CHOOSE i \in S : \A j \in S : sc[i] > sc[j] \/ (sc[i] = sc[j] /\ i <= j)

RECURSIVE Ranked(_, _)
Ranked(sc, S) ==
    IF S = {} THEN <<>>
    ELSE LET b == BestIdx(sc, S) IN <<b>> \o Ranked(sc, S \ {b})

\* process.extract(q, names, scorer=fuzz.WRatio, limit=5)
ExtractLimit == 5
Extract(sc) == Take(Ranked(sc, DOMAIN sc), ExtractLimit)

\* cands = [roster[idx] for name,score,idx in cands if score>=60]
RECURSIVE Cands(_, _, _)
Cands(ros, sc, ranked) ==
    IF ranked = <<>> THEN <<>>
    ELSE (IF IsCandidate(sc[Head(ranked)]) THEN <<ros[Head(ranked)]>> ELSE <<>>)
         \o Cands(ros, sc, Tail(ranked))

\* process.extractOne is reached: a reference that is not blank, no id hit,
\* a roster that is not empty
CallsScorer(ros, ref) ==
    LET qs == Strip(IF ref = None THEN <<>> ELSE ref[1])
    IN  qs # <<>> /\ IdHitIdx(ros, qs) = {} /\ Len(ros) > 0

\* what the scorer returns over the roster's names when it is called
ScorerOutcomes(ros, ref) ==
    IF CallsScorer(ros, ref) THEN ScoreVectors(ros) ELSE {<<>>}

Resolution(res, cands, why) ==
    [resolved |-> res, candidates |-> cands, reason |-> why]

\* return None, id_hits, "ambiguous": the entries of id_hits
HitEntriesMut(ros, id_hits) == <<ros[id_hits[1]]>>
HitEntries(ros, id_hits) == [k \in 1..Len(id_hits) |-> ros[id_hits[k]]]

fuzzy_resolve(ros, ref, sc) ==
    LET qs == Strip(IF ref = None THEN <<>> ELSE ref[1])
        hits == IdHitIdx(ros, qs)
        id_hits == FilterIdx(hits, Len(ros), 1)
    IN  IF qs = <<>> THEN Resolution(None, <<>>, "none")
        ELSE IF Len(id_hits) = 1
            THEN Resolution(Some(ros[id_hits[1]]), <<>>, "by_id")
        ELSE IF Len(id_hits) > 1
            THEN Resolution(None, HitEntries(ros, id_hits), "ambiguous")
        ELSE IF Len(ros) = 0 THEN Resolution(None, <<>>, "none")
        ELSE LET best == BestIdx(sc, DOMAIN sc)
                 cands == Cands(ros, sc, Extract(sc))
             IN  IF ResolvesByName(sc[best])
                     THEN Resolution(Some(ros[best]), <<>>, "by_name")
                 ELSE IF cands # <<>> THEN Resolution(None, cands, "ambiguous")
                 ELSE Resolution(None, <<>>, "none")

(***************************************************************************)
(* query_analyzer.py: analyze_query_with_slm                               *)
(*                                                                         *)
(* The call is followed through its positions: "invoke" (the oracle call   *)
(* and the result dict), "multi" (fallback extraction and deduplication),  *)
(* "loop" (one fuzzy_resolve per surviving reference), "single" (the       *)
(* single-patient block), "done" (returned) and "raised" (an exception     *)
(* left the function).                                                     *)
(***************************************************************************)
NullIntent == "<None>"        \* "intent": null in the oracle's JSON
DefaultConfidence == 5        \* 0.5, in tenths

BlankResult ==
    [intent |-> "<unset>", patient_reference |-> None,
     patient_references |-> None, confidence |-> 0,
     resolved_patient |-> None, resolved_patients |-> <<>>,
     candidates |-> <<>>, unresolved_refs |-> None]

\* the oracle's JSON object.  A key that is absent is None here; "intent":
\* null is Some(NullIntent); "patient_references": null is has_refs with
\* refs = None.
Response(intent, pref, has_refs, refs, conf) ==
    [intent |-> intent, patient_reference |-> pref, has_refs |-> has_refs,
     patient_references |-> refs, confidence |-> conf]

\* except Exception: the fallback routing_decision
FallbackDecisionMut ==
    Response(Some("patient_specific"), None, FALSE, None, Some(DefaultConfidence))
FallbackDecision ==
    Response(Some("general"), None, FALSE, None, Some(DefaultConfidence))

\* result = {...}: the .get() calls with their defaults
BuildResult(rd) ==
    [intent |-> IF rd.intent = None THEN "general" ELSE rd.intent[1],
     patient_reference |-> rd.patient_reference,
     patient_references |->
         IF rd.has_refs THEN rd.patient_references ELSE Some(<<>>),
     confidence |->
         IF rd.confidence = None THEN DefaultConfidence ELSE rd.confidence[1],
     resolved_patient |-> None,
     resolved_patients |-> <<>>,
     candidates |-> <<>>,
     unresolved_refs |-> None]

\* Python truthiness of an Optional string
Truthy(ref) == ref # None /\ ref[1] # <<>>

InSeq(x, s) == \E i \in 1..Len(s) : s[i] = x

\* for match in matches: if match and match not in patient_refs: append
RECURSIVE AppendNew(_, _)
AppendNew(refs, matches) ==
    IF matches = <<>> THEN refs
    ELSE LET m == Some(Head(matches))
         IN  AppendNew(IF Truthy(m) /\ ~InSeq(m, refs) THEN Append(refs, m)
                       ELSE refs,
                       Tail(matches))

\* the fallback extraction: what it leaves in the (shared) list
WithFallback(refs, matches, and_matches) ==
    IF Len(refs) < 2 /\ matches # <<>>
        THEN AppendNew(refs, matches \o and_matches)
        ELSE refs

\* ref.lower().strip() if ref else ""
RefKey(ref) == IF Truthy(ref) THEN Strip(Lower(ref[1])) ELSE <<>>

\* "Remove duplicates while preserving order"
RECURSIVE UniqueRefs(_, _)
UniqueRefs(refs, seen) ==
    IF refs = <<>> THEN <<>>
    ELSE LET k == RefKey(Head(refs))
         IN  IF k # <<>> /\ k \notin seen
                 THEN <<Head(refs)>> \o UniqueRefs(Tail(refs), seen \cup {k})
                 ELSE UniqueRefs(Tail(refs), seen)

\* any(p['patient_id'] == resolved['patient_id'] for p in resolved_patients)
AlreadyResolvedMut(ps, p) == FALSE
AlreadyResolved(ps, p) == \E i \in 1..Len(ps) : ps[i].patient_id = p.patient_id

\* if len(resolved_patients) >= 2
EnoughResolvedMut(ps) == Len(ps) >= 1
EnoughResolved(ps) == Len(ps) >= 2

\* lines 143-146: "Not enough patients mentioned, treat as single patient"
DemoteMut(res, unique) == [res EXCEPT !.intent = "patient_specific"]
Demote(res, unique) ==
    [res EXCEPT !.intent = "patient_specific",
                !.patient_reference = IF unique # <<>> THEN unique[1] ELSE None]

\* what the history keeps of one fuzzy_resolve call
Call(ref, r) ==
    [ref |-> ref, resolved |-> r.resolved, candidates |-> r.candidates,
     reason |-> r.reason]

\* ---- lines 62-82: the oracle call and the result dict
\* kind: "raise" (chain.invoke raised), "nondict" (the parser returned JSON
\* that is no object), "dict"
Invoke(kind, rd) ==
    /\ pc = "invoke"
    /\ oracle_failed' = (kind = "raise")
    /\ IF kind = "nondict"
          THEN /\ pc' = "raised"      \* routing_decision.get: AttributeError
               /\ UNCHANGED result
          ELSE LET res == BuildResult(IF kind = "raise" THEN FallbackDecision
                                      ELSE rd)
               IN  /\ result' = res
                   /\ pc' = IF res.intent = "multi_patient" THEN "multi"
                            ELSE "single"
    /\ UNCHANGED <<roster, rosterVars, sessionVars,
                   resolveVars, assembleVars, locked_patient, patient_refs,
                   resolved_patients, unresolved_refs, ref_idx, path,
                   resolverCalls>>

\* ---- lines 85-116 and 143-146: fallback extraction, deduplication, and the
\* choice between the multi-patient loop and the demotion.
\* matches, and_matches: what re.findall returns for the two patterns
MultiExtract(matches, and_matches) ==
    /\ pc = "multi"
    /\ IF result.patient_references = None
          THEN /\ pc' = "raised"      \* len(None): TypeError
               /\ UNCHANGED <<result, patient_refs, ref_idx, path>>
          ELSE LET extended == WithFallback(result.patient_references[1],
                                          matches, and_matches)
                   unique == UniqueRefs(extended, {})
               IN  /\ patient_refs' = unique
                   /\ IF Len(unique) >= 2
                         THEN /\ result' =
                                   [result EXCEPT !.patient_references = Some(extended)]
                              /\ ref_idx' = 1
                              /\ path' = "multi"
                              /\ pc' = "loop"
                         ELSE /\ result' =
                                   Demote([result EXCEPT
                                              !.patient_references = Some(extended)],
                                          unique)
                              /\ path' = "demoted"
                              /\ pc' = "single"
                              /\ UNCHANGED ref_idx
    /\ UNCHANGED <<roster, rosterVars, sessionVars,
                   resolveVars, assembleVars, locked_patient, resolved_patients,
                   unresolved_refs, oracle_failed, resolverCalls>>

\* ---- lines 119-127: one iteration of `for ref in patient_refs`
MultiResolve(sc) ==
    /\ pc = "loop"
    /\ ref_idx <= Len(patient_refs)
    /\ LET ref == patient_refs[ref_idx]
           r == fuzzy_resolve(roster, ref, sc)
       IN  /\ resolverCalls' = Append(resolverCalls, Call(ref, r))
           /\ IF r.resolved # None
                 THEN /\ resolved_patients' =
                           IF AlreadyResolved(resolved_patients, r.resolved[1])
                               THEN resolved_patients
                               ELSE Append(resolved_patients, r.resolved[1])
                      /\ UNCHANGED unresolved_refs
                 ELSE /\ unresolved_refs' = Append(unresolved_refs, ref)
                      /\ UNCHANGED resolved_patients
    /\ ref_idx' = ref_idx + 1
    /\ UNCHANGED <<roster, rosterVars, sessionVars,
                   resolveVars, assembleVars, locked_patient, pc, result,
                   patient_refs, oracle_failed, path>>

\* lines 129-142: the outcome of the multi-patient loop
AfterLoopMut(res, resolved, unresolved) ==
    IF EnoughResolved(resolved)
        THEN [res EXCEPT !.resolved_patients = resolved,
                         !.intent = "multi_patient"]
        ELSE [res EXCEPT !.intent = "patient_specific_not_found",
                         !.unresolved_refs = Some(unresolved)]
AfterLoopStoresMut(res, resolved, unresolved) ==
    [res EXCEPT !.resolved_patients = resolved,
                !.intent = IF EnoughResolved(resolved) THEN "multi_patient"
                           ELSE "patient_specific_not_found",
                !.unresolved_refs = Some(unresolved)]
AfterLoop(res, resolved, unresolved) ==
    IF EnoughResolved(resolved)
        THEN [res EXCEPT !.resolved_patients = resolved,
                         !.intent = "multi_patient",
                         !.unresolved_refs =
                             IF unresolved # <<>> THEN Some(unresolved) ELSE @]
        ELSE [res EXCEPT !.intent = "patient_specific_not_found",
                         !.unresolved_refs = Some(unresolved)]

\* ---- lines 129-142 (and the test of line 149, which is false here)
MultiFinish ==
    /\ pc = "loop"
    /\ ref_idx > Len(patient_refs)
    /\ result' = AfterLoop(result, resolved_patients, unresolved_refs)
    /\ pc' = "done"
    /\ UNCHANGED <<roster, rosterVars, sessionVars,
                   resolveVars, assembleVars, locked_patient, patient_refs,
                   resolved_patients, unresolved_refs, ref_idx, oracle_failed,
                   path, resolverCalls>>

\* lines 156-162: the decision after fuzzy_resolve on the single-patient path
AfterResolveMut(res, r) ==
    IF r.resolved # None THEN [res EXCEPT !.resolved_patient = r.resolved]
    ELSE [res EXCEPT !.intent = "patient_specific_not_found",
                     !.candidates = r.candidates]
AfterResolve(res, r) ==
    IF r.resolved # None THEN [res EXCEPT !.resolved_patient = r.resolved]
    ELSE IF r.candidates # <<>> THEN [res EXCEPT !.candidates = r.candidates]
    ELSE [res EXCEPT !.intent = "patient_specific_not_found"]

\* lines 166-170: no reference was extracted
WithoutReferenceMut(res, locked) ==
    IF locked # None
        THEN [res EXCEPT !.intent = "patient_specific_use_locked"]
        ELSE [res EXCEPT !.intent = "patient_specific_no_context"]
WithoutReference(res, locked) ==
    IF locked # None
        THEN [res EXCEPT !.resolved_patient = locked,
                         !.intent = "patient_specific_use_locked"]
        ELSE [res EXCEPT !.intent = "patient_specific_no_context"]

\* ---- lines 149-172: the single-patient block and the return
Single(sc) ==
    /\ pc = "single"
    /\ IF result.intent # "patient_specific"
          THEN UNCHANGED <<result, path, resolverCalls>>
          ELSE IF Truthy(result.patient_reference)
              THEN LET r == fuzzy_resolve(roster, result.patient_reference, sc)
                   IN  /\ resolverCalls' =
                            Append(resolverCalls, Call(result.patient_reference, r))
                       /\ path' = IF path = "demoted" THEN "demoted_ref"
                                  ELSE "single_ref"
                       /\ result' = AfterResolve(result, r)
              ELSE /\ path' = IF path = "demoted" THEN "demoted_noref"
                              ELSE "single_noref"
                   /\ result' = WithoutReference(result, locked_patient)
                   /\ UNCHANGED resolverCalls
    /\ pc' = "done"
    /\ UNCHANGED <<roster, rosterVars, sessionVars,
                   resolveVars, assembleVars, locked_patient, patient_refs,
                   resolved_patients, unresolved_refs, ref_idx, oracle_failed>>

(***************************************************************************)
(* app.py: the multi-patient branch (lines 161-304) and the context cap    *)
(* (lines 418-425).                                                        *)
(*                                                                         *)
(* match_patient_chunks is the retrieval backend: a call scoped to a       *)
(* patient_id returns rows of that patient's partition, in any order.      *)
(* The branch is followed through its positions: "passes" (one retrieval   *)
(* strategy of one patient per step), "emergency" (the verification loop,  *)
(* one patient per step), "interleave" (summary, round-robin and cap),     *)
(* "done".                                                                 *)
(***************************************************************************)
\* a row of rag_chunks as the RPC returns it: {id, content, metadata}
Row(id, content, i) ==
    [id |-> id, content |-> content, metadata |-> [patient_id |-> PatientId(i)]]

\* the partition of patient i.  Patient 2 has two rows without id whose
\* contents differ only after the first 50 characters.
Partition(i) ==
    CASE i = 1 -> {Row(Some(<<"1">>), <<"h">>, 1), Row(Some(<<"2">>), <<"w">>, 1),
                   Row(Some(<<"3">>), <<"t">>, 1)}
      [] i = 2 -> {Row(Some(<<"4">>), <<"h">>, 2),
                   Row(None, Es(50) \o <<"u">>, 2),
                   Row(None, Es(50) \o <<"v">>, 2)}
      [] OTHER -> {Row(Some(<<"5">> \o Es(i)), <<"h">>, i)}

DirectoryIndex(p) == CHOOSE i \in 1..MaxPatients : Patient(i) = p

\* what one call scoped to patient p can return: up to MaxHits distinct rows
\* of p's partition
IsInjective(f) == \A i, j \in DOMAIN f : f[i] = f[j] => i = j
Retrievals(p) ==
    {h \in SeqsUpTo(Partition(DirectoryIndex(p)), MaxHits) : IsInjective(h)}

\* the patient_id argument of match_patient_chunks(..., patient["patient_id"], ...)
p_patient_idMut(patient) == PatientId(1)
p_patient_id(patient) == patient.patient_id

\* the patient whose partition a call scoped to pid reads
ScopedTo(pid) == Patient(CHOOSE i \in 1..MaxPatients : PatientId(i) = pid)

\* a call as the history keeps it: the patient of the loop it was made for
\* (index in `patients`), the patient_id it was scoped to, the rows returned,
\* and whether it was a call of the emergency retrieval
NoCall == [slot |-> 0, scope |-> <<>>, hits |-> <<>>, emergency |-> FALSE]
CallMade(slot, scope, hits, emergency) ==
    [slot |-> slot, scope |-> scope, hits |-> hits, emergency |-> emergency]

\* patient_name = f"{patient['first_name']} {patient['last_name']}"
PatientName(p) == p.first_name \o <<" ">> \o p.last_name

\* chunk_id = h.get("id") or h.get("content", "")[:50]
IdentityPrefix == 50
ChunkId(h) == IF h.id # None /\ h.id[1] # <<>> THEN h.id[1]
              ELSE Take(h.content, IdentityPrefix)

Kept(h, name) == [h |-> h, name |-> name]

\* if chunk_id not in seen_chunk_ids
UnseenMut(cid, seen) == TRUE
Unseen(cid, seen) == cid \notin seen

\* for h in hits: if chunk_id not in seen: seen.add(chunk_id); append
RECURSIVE MergeHits(_, _, _, _)
MergeHits(kept, seen, hits, name) ==
    IF hits = <<>> THEN [kept |-> kept, seen |-> seen]
    ELSE LET cid == ChunkId(Head(hits))
         IN  IF Unseen(cid, seen)
                 THEN MergeHits(Append(kept, Kept(Head(hits), name)),
                                seen \cup {cid}, Tail(hits), name)
                 ELSE MergeHits(kept, seen, Tail(hits), name)

\* strategies 1-3, and the three height queries when the prompt has "height"
LastPass == IF wants_height THEN 6 ELSE 3

\* patient_chunks[name] = value
Store(dict, name, value) ==
    [n \in DOMAIN dict \cup {name} |-> IF n = name THEN value ELSE dict[n]]

\* patient_chunks.get(name, [])
Lookup(dict, name) == IF name \in DOMAIN dict THEN dict[name] ELSE <<>>

Rows(kept) == [k \in 1..Len(kept) |-> kept[k].h]
ChunkIds(kept) == {ChunkId(kept[k].h) : k \in 1..Len(kept)}

\* ---- lines 204-249: one match_patient_chunks call of the per-patient loop,
\* merged into patient_hits; after the last strategy the list is stored
\* under the patient's name
RetrievalPass(hits) ==
    /\ stage = "passes"
    /\ LET patient == patients[pidx]
           m == MergeHits(patient_hits, seen_chunk_ids, hits, PatientName(patient))
       IN  /\ returned_any' = IF hits # <<>> THEN returned_any \cup {pidx}
                              ELSE returned_any
           /\ last_call' = CallMade(pidx, p_patient_id(patient), hits, FALSE)
           /\ IF pass_no < LastPass
                 THEN /\ patient_hits' = m.kept
                      /\ seen_chunk_ids' = m.seen
                      /\ pass_no' = pass_no + 1
                      /\ UNCHANGED <<patient_chunks, pidx, stage, merged>>
                 ELSE /\ patient_chunks' =
                           Store(patient_chunks, PatientName(patient), m.kept)
                      /\ merged' = [merged EXCEPT ![pidx] = Rows(m.kept)]
                      /\ patient_hits' = <<>>
                      /\ seen_chunk_ids' = {}
                      /\ pass_no' = 1
                      /\ IF pidx < Len(patients)
                            THEN pidx' = pidx + 1 /\ UNCHANGED stage
                            ELSE pidx' = 1 /\ stage' = "emergency"
    /\ UNCHANGED <<roster, rosterVars, sessionVars,
                   resolveVars, analyzeVars, patients, wants_height,
                   context, ctx_block, emergency_len, emergency_kept>>

\* if patient_name not in patient_chunks or len(patient_chunks[patient_name]) == 0
NeedsEmergency(dict, name) == name \notin DOMAIN dict \/ Len(dict[name]) = 0

\* if len(emergency_hits) >= 15: break
EmergencyEnough == 15
EmergencyQueryCount == 4
LastEmergencyCall(len) == len >= EmergencyEnough \/ pass_no = EmergencyQueryCount

AfterEmergencyStep ==
    IF pidx < Len(patients)
        THEN pidx' = pidx + 1 /\ UNCHANGED stage
        ELSE pidx' = 1 /\ stage' = "interleave"

\* ---- lines 252-276: one match_patient_chunks call of the emergency
\* retrieval of a patient without chunks; after the last call the
\* deduplicated hits are appended under the patient's name.
\* emergency_hits is held as emergency_len, its length, and emergency_kept,
\* its rows in first-seen order without repeated identity: the code reads
\* len(emergency_hits) and scans the list once through `seen`, nothing else.
EmergencyCall(hits) ==
    /\ stage = "emergency"
    /\ NeedsEmergency(patient_chunks, PatientName(patients[pidx]))
    /\ LET name == PatientName(patients[pidx])
           len == emergency_len + Len(hits)
           m == MergeHits(emergency_kept, ChunkIds(emergency_kept), hits, name)
       IN  /\ returned_any' = IF hits # <<>> THEN returned_any \cup {pidx}
                              ELSE returned_any
           /\ last_call' =
                  CallMade(pidx, p_patient_id(patients[pidx]), hits, TRUE)
           /\ IF LastEmergencyCall(len)
                 THEN /\ patient_chunks' =
                           IF m.kept # <<>>
                               THEN Store(patient_chunks, name,
                                          Lookup(patient_chunks, name) \o m.kept)
                               ELSE patient_chunks
                      /\ merged' = [merged EXCEPT ![pidx] = @ \o Rows(m.kept)]
                      /\ emergency_len' = 0
                      /\ emergency_kept' = <<>>
                      /\ pass_no' = 1
                      /\ AfterEmergencyStep
                 ELSE /\ emergency_len' = len
                      /\ emergency_kept' = m.kept
                      /\ pass_no' = pass_no + 1
                      /\ UNCHANGED <<patient_chunks, merged, pidx, stage>>
    /\ UNCHANGED <<roster, rosterVars, sessionVars,
                   resolveVars, analyzeVars, patients, wants_height,
                   patient_hits, seen_chunk_ids, context, ctx_block>>

\* ---- line 254 false: the patient has chunks, nothing is retrieved
EmergencyNotNeeded ==
    /\ stage = "emergency"
    /\ ~NeedsEmergency(patient_chunks, PatientName(patients[pidx]))
    /\ AfterEmergencyStep
    /\ UNCHANGED <<roster, rosterVars, sessionVars,
                   resolveVars, analyzeVars, patients, wants_height,
                   pass_no, patient_hits, seen_chunk_ids, patient_chunks,
                   context, ctx_block, returned_any, merged, emergency_len,
                   emergency_kept, last_call>>

Max(a, b) == IF a >= b THEN a ELSE b

\* max(len(chunks) for chunks in patient_chunks.values()) if patient_chunks else 0
MaxChunks(dict) ==
    IF DOMAIN dict = {} THEN 0
    ELSE CHOOSE n \in {Len(dict[k]) : k \in DOMAIN dict} :
             \A k \in DOMAIN dict : Len(dict[k]) <= n

\* an item of the context together with its entry of interleaved_sources
SummaryItem(parts) ==
    [tag |-> "summary", label |-> <<>>, content |-> <<>>,
     metadata |-> [patient_id |-> <<>>], counts |-> parts]
ChunkItem(pname, h) ==
    [tag |-> "chunk", label |-> pname, content |-> h.content,
     metadata |-> h.metadata, counts |-> <<>>]

\* summary_parts: f"{patient_name}: {chunk_count} data chunks" per patient
SummaryParts(ps, dict) ==
    [i \in 1..Len(ps) |->
        [name |-> PatientName(ps[i]),
         chunk_count |-> Len(Lookup(dict, PatientName(ps[i])))]]

\* for patient in patients: if i < len(chunks): append  (one round i)
RECURSIVE Round(_, _, _, _)
Round(ps, dict, i, k) ==
    IF k > Len(ps) THEN <<>>
    ELSE LET chunks == Lookup(dict, PatientName(ps[k]))
         IN  (IF i <= Len(chunks)
                  THEN <<ChunkItem(chunks[i].name, chunks[i].h)>>
                  ELSE <<>>)
             \o Round(ps, dict, i, k + 1)

\* for i in range(max_chunks): ...
RECURSIVE Rounds(_, _, _, _)
Rounds(ps, dict, i, n) ==
    IF i > n THEN <<>>
    ELSE Round(ps, dict, i, 1) \o Rounds(ps, dict, i + 1, n)

Interleaved(ps, dict) ==
    <<SummaryItem(SummaryParts(ps, dict))>> \o Rounds(ps, dict, 1, MaxChunks(dict))

\* max_context_chunks = max(50, num_patients * 15)
CapFloor == 50
CapPerPatient == 15
MaxContextChunks(n) == Max(CapFloor, n * CapPerPatient)

NoContext == <<[tag |-> "placeholder", label |-> <<>>, content |-> <<>>,
                metadata |-> [patient_id |-> <<>>], counts |-> <<>>]>>

\* "\n---\n".join(context[:max_context_chunks]) if context else "(no context)"
CtxBlock(ctx, cap) == IF ctx # <<>> THEN Take(ctx, cap) ELSE NoContext

\* ---- lines 278-304 and 418-422: summary, round-robin and the capped block
Interleave ==
    /\ stage = "interleave"
    /\ LET ctx == Interleaved(patients, patient_chunks)
       IN  /\ context' = ctx
           /\ ctx_block' = CtxBlock(ctx, MaxContextChunks(Len(patients)))
    /\ stage' = "done"
    /\ UNCHANGED <<roster, rosterVars, sessionVars,
                   resolveVars, analyzeVars, patients, wants_height,
                   pidx, pass_no, patient_hits, seen_chunk_ids, patient_chunks,
                   returned_any, merged, emergency_len, emergency_kept,
                   last_call>>

AssembleIdle ==
    /\ patients = <<>>
    /\ wants_height = FALSE
    /\ stage = "idle"
    /\ pidx = 0
    /\ pass_no = 0
    /\ patient_hits = <<>>
    /\ seen_chunk_ids = {}
    /\ patient_chunks = <<>>
    /\ context = <<>>
    /\ ctx_block = <<>>
    /\ returned_any = {}
    /\ merged = <<>>
    /\ emergency_len = 0
    /\ emergency_kept = <<>>
    /\ last_call = NoCall

(***************************************************************************)
(* patients.py: build_roster_from_supabase                                 *)
(*                                                                         *)
(* A row of rag_chunks is {"metadata": md}; md is a JSON object or null.   *)
(* A value of md is an Optional string: None is JSON null, Some(s) the     *)
(* string s.                                                               *)
(***************************************************************************)
ALIASES ==
    [patient_id |-> <<"patient_id", "Patient_Id", "PatientID">>,
     first_name |-> <<"first_name", "First_Name">>,
     last_name |-> <<"last_name", "Last_Name">>,
     dob |-> <<"dob", "Date_of_birth", "DOB">>]

\* str(md[k])
Str(v) == IF v = None THEN <<"N", "o", "n", "e">> ELSE v[1]

\* for k in ALIASES.get(key, [key]): if k in md: return str(md[k])
RECURSIVE FirstAlias(_, _)
FirstAlias(md, keys) ==
    IF keys = <<>> THEN <<>>
    ELSE IF Head(keys) \in DOMAIN md THEN Str(md[Head(keys)])
    ELSE FirstAlias(md, Tail(keys))

mget(md, key) == FirstAlias(md, ALIASES[key])

\* md = row.get("metadata") or {}
EmptyDict == [k \in {} |-> None]
MetadataOf(row) == IF row.metadata = None THEN EmptyDict ELSE row.metadata[1]

\* the entry by_pid[pid] is given on lines 27-32
RosterEntry(md, pid) ==
    [patient_id |-> pid, first_name |-> mget(md, "first_name"),
     last_name |-> mget(md, "last_name"), dob |-> mget(md, "dob")]

\* if pid not in by_pid
KnownPid(by_pid, pid) == \E k \in 1..Len(by_pid) : by_pid[k].patient_id = pid

\* the loop of lines 22-32; by_pid is held in insertion order, which is the
\* order of list(by_pid.values())
RECURSIVE RosterLoop(_, _)
RosterLoop(rows, by_pid) ==
    IF rows = <<>> THEN by_pid
    ELSE LET md == MetadataOf(Head(rows))
             pid == mget(md, "patient_id")
         IN  IF pid = <<>> \/ KnownPid(by_pid, pid)
                 THEN RosterLoop(Tail(rows), by_pid)
                 ELSE RosterLoop(Tail(rows), Append(by_pid, RosterEntry(md, pid)))

build_roster_from_supabase(rows) == RosterLoop(rows, <<>>)

\* ---- lines 18-33
BuildRoster ==
    /\ built = None
    /\ built' = Some(build_roster_from_supabase(db_rows))
    /\ UNCHANGED <<roster, db_rows, resolveVars, analyzeVars, assembleVars,
                   sessionVars>>

RosterIdle ==
    /\ db_rows = <<>>
    /\ built = None

(***************************************************************************)
(* app.py: the chat session.                                               *)
(*                                                                         *)
(* One script run handles one Clear click or one chat input.  Its          *)
(* positions are "idle" (no run in progress: the page waits for input),    *)
(* "analyze" (inside analyze_query_with_slm, followed through pc),         *)
(* "assemble" (the multi-patient branch, followed through stage),          *)
(* "retrieve" (the one retrieval call of the other answering branches) and *)
(* "build" (context block, message list and stream).  st.rerun() and an    *)
(* exception both end the run; the session state stays, the locals go.     *)
(***************************************************************************)
\* history: the script run in progress or, at "idle", the last one
NoTurn ==
    [n |-> 0, kind |-> "none", intent |-> "<unset>", path |-> "none",
     analyzed |-> FALSE, retrievals |-> 0, streamed |-> FALSE,
     clarified |-> FALSE, ambiguous |-> FALSE, locked_before |-> None,
     active_before |-> <<>>, pending_before |-> None]

\* str(n) of a natural number
Digits == <<"0", "1", "2", "3", "4", "5", "6", "7", "8", "9">>
RECURSIVE DecStr(_)
DecStr(n) ==
    IF n < 10 THEN <<Digits[n + 1]>>
    ELSE DecStr(n \div 10) \o <<Digits[(n % 10) + 1]>>

\* s[start:stop] of Python, for any integers start and stop
PyIndex(len, i) == IF i < 0 THEN Max(len + i, 0) ELSE Min(i, len)
PySlice(s, start, stop) ==
    SubSeq(s, PyIndex(Len(s), start) + 1, PyIndex(Len(s), stop))

Message(role, content) == [role |-> role, content |-> content]

\* the texts the app itself writes into the conversation
ClearedText == <<"Patient context cleared.">>
LockedText(p) == <<"Locked to patient ">> \o PatientName(p)
NoMatchText == <<"I couldn't match your selection.">>
CandidatesText(ref, cands) ==
    <<"I found multiple patients matching ">> \o Str(ref)
    \o <<" ">> \o DecStr(Len(cands))
NoContextText == <<"I need to know which patient.">>
NotFoundText(refs) == <<"I couldn't find ">> \o refs
AnswerText == <<"<streamed>">>

\* lines 116-135: the candidate the reply selects, None if none
ReplyMatches(user_choice, candidate, idx) ==
    LET full_name == Lower(candidate.first_name \o <<" ">> \o candidate.last_name)
    IN  \/ user_choice = DecStr(idx)
        \/ user_choice = Lower(candidate.patient_id)
        \/ Contains(full_name, user_choice)
        \/ Contains(user_choice, full_name)

SelectedCandidateMut(p, candidates) ==
    LET user_choice == Lower(Strip(p))
        ms == {i \in 1..Len(candidates) :
                  ReplyMatches(user_choice, candidates[i], i)}
    IN  IF ms = {} THEN None
        ELSE Some(candidates[CHOOSE i \in ms : \A j \in ms : i >= j])
SelectedCandidate(p, candidates) ==
    LET user_choice == Lower(Strip(p))
        ms == {i \in 1..Len(candidates) :
                  ReplyMatches(user_choice, candidates[i], i)}
    IN  IF ms = {} THEN None
        ELSE Some(candidates[CHOOSE i \in ms : \A j \in ms : i <= j])

\* context = [h["content"] for h in hits]
PlainItem(h) ==
    [tag |-> "plain", label |-> <<>>, content |-> h.content,
     metadata |-> h.metadata, counts |-> <<>>]
PlainContext(hits) == [k \in 1..Len(hits) |-> PlainItem(hits[k])]

\* " | ".join(f"{patient_name}: {chunk_count} data chunks" ...)
RECURSIVE SummaryText(_)
SummaryText(parts) ==
    IF parts = <<>> THEN <<>>
    ELSE Head(parts).name \o <<": ">> \o DecStr(Head(parts).chunk_count)
         \o <<" data chunks">>
         \o (IF Len(parts) > 1 THEN <<" | ">> ELSE <<>>)
         \o SummaryText(Tail(parts))

\* the string an item of the context is
ItemText(item) ==
    CASE item.tag = "summary" ->
            <<"CONTEXT SUMMARY: ">> \o SummaryText(item.counts) \o <<"\n\n">>
      [] item.tag = "chunk" ->
            <<"[">> \o item.label \o <<"]: ">> \o item.content
      [] item.tag = "placeholder" -> <<"(no context)">>
      [] OTHER -> item.content

\* "\n---\n".join(items)
RECURSIVE JoinText(_)
JoinText(items) ==
    IF items = <<>> THEN <<>>
    ELSE ItemText(Head(items))
         \o (IF Len(items) > 1 THEN <<"\n---\n">> ELSE <<>>)
         \o JoinText(Tail(items))

\* context[:20]
SingleCap == 20

\* st.session_state.messages[-8:-1] if len(...) > 1 else [], then [-7:]
HistoryWindow == 8
HistoryKept == 7
RecentHistoryMut(msgs) == PySlice(msgs, 0 - HistoryKept, Len(msgs))
RecentHistory(msgs) ==
    LET recent_history ==
            IF Len(msgs) > 1 THEN PySlice(msgs, 0 - HistoryWindow, 0 - 1)
            ELSE <<>>
    IN  PySlice(recent_history, 0 - HistoryKept, Len(recent_history))

\* lines 426-440: the message list handed to chat.stream
BuildMessages(system, msgs, block_text, p) ==
    <<Message("system", system)>>
    \o RecentHistory(msgs)
    \o <<Message("user", <<"CONTEXT:\n">> \o block_text
                          \o <<"\n\nQUESTION: ">> \o p \o <<"\nAnswer:">>)>>

SessionIdle ==
    /\ ss_locked_patient = None
    /\ active_patients = <<>>
    /\ messages = <<>>
    /\ awaiting_disambiguation = None
    /\ prompt = None
    /\ run = "idle"
    /\ sent = None
    /\ ctx_text = None
    /\ turn = NoTurn

(***************************************************************************)
(* fuzzy_resolve called on its own: the inputs are drawn in the initial    *)
(* state, the one action applies the function.                             *)
(***************************************************************************)
\* references handed to the resolver: None, empty, blank, ids in either
\* case and with blanks around, parts of ids, and names that hit no id
ResolveRefs ==
    {None, Some(<<>>), Some(<<" ">>), Some(<<"a">>), Some(<<" ", "A">>),
     Some(<<"a", "b">>), Some(<<"b">>), Some(<<"c">>), Some(<<"C">>),
     Some(<<"q">>),
     Some(<<"x", " ", "y">>)}

AnalyzeIdle ==
    /\ locked_patient = None
    /\ pc = "idle"
    /\ result = BlankResult
    /\ patient_refs = <<>>
    /\ resolved_patients = <<>>
    /\ unresolved_refs = <<>>
    /\ ref_idx = 0
    /\ oracle_failed = FALSE
    /\ path = "none"
    /\ resolverCalls = <<>>

InitResolve ==
    /\ \E n \in 0..MaxRoster : roster = Directory(n)
    /\ q \in ResolveRefs
    /\ scores \in ScorerOutcomes(roster, q)
    /\ outcome = None
    /\ AnalyzeIdle
    /\ AssembleIdle
    /\ RosterIdle
    /\ SessionIdle

ResolveCall ==
    /\ outcome = None
    /\ outcome' = Some(fuzzy_resolve(roster, q, scores))
    /\ UNCHANGED <<roster, q, scores, analyzeVars, assembleVars, rosterVars,
                   sessionVars>>

NextResolve == ResolveCall

SpecResolve == InitResolve /\ [][NextResolve]_vars

(***************************************************************************)
(* analyze_query_with_slm on its own: roster and lock are drawn in the     *)
(* initial state, the oracle's outcome, the regular-expression matches and *)
(* the scorer's values where the code obtains them.                        *)
(***************************************************************************)
MaxMatches == 2         \* longest re.findall result of the fallback patterns

\* reference strings the oracle extracts: blank, ids ("a" is in two ids,
\* "b" in one), the same in another case, and a name that hits no id
AnalyzeRefs ==
    {Some(<<" ">>), Some(<<"a">>), Some(<<"b">>), Some(<<"B">>), Some(<<"q">>)}

\* names the fallback patterns capture (never empty: [A-Z][a-z]+): one that
\* an id contains and one that only names can match, other than the oracle's
RegexNames == {<<"b">>, <<"z">>}

MultiResponses ==
    {Response(Some("multi_patient"), Some(<<"q">>), TRUE, Some(refs), Some(9)) :
        refs \in SeqsUpTo(AnalyzeRefs, MaxRefs)}
    \cup {Response(Some("multi_patient"), None, FALSE, None, Some(9)),
          Response(Some("multi_patient"), None, TRUE, None, Some(9))}

SingleResponses ==
    {Response(Some("patient_specific"), pref, has, Some(<<>>), conf) :
        pref \in AnalyzeRefs \cup {None, Some(<<>>)}, has \in BOOLEAN,
        conf \in {None, Some(9)}}

OtherResponses ==
    {Response(intent, pref, FALSE, None, conf) :
        intent \in {None, Some("general"), Some("smalltalk"), Some(NullIntent)},
        pref \in {None, Some(<<"q">>)}, conf \in {None, Some(9)}}

OracleResponses == MultiResponses \cup SingleResponses \cup OtherResponses

ResolveIdle ==
    /\ q = None
    /\ scores = <<>>
    /\ outcome = None

InitAnalyze ==
    /\ \E n \in 1..MaxAnalyzeRoster : roster = Directory(n)
    /\ locked_patient \in {None} \cup {Some(roster[i]) : i \in 1..Len(roster)}
    /\ pc = "invoke"
    /\ result = BlankResult
    /\ patient_refs = <<>>
    /\ resolved_patients = <<>>
    /\ unresolved_refs = <<>>
    /\ ref_idx = 0
    /\ oracle_failed = FALSE
    /\ path = "none"
    /\ resolverCalls = <<>>
    /\ ResolveIdle
    /\ AssembleIdle
    /\ RosterIdle
    /\ SessionIdle

OracleAnswers == \E rd \in OracleResponses : Invoke("dict", rd)
OracleRaises == Invoke("raise", FallbackDecision)
OracleNotAnObject == Invoke("nondict", FallbackDecision)

\* the fallback patterns are matched only when fewer than 2 references came
FallbackMatches ==
    IF result.patient_references # None /\ Len(result.patient_references[1]) < 2
        THEN SeqsUpTo(RegexNames, MaxMatches)
        ELSE {<<>>}

FallbackAndDedup ==
    /\ pc = "multi"
    /\ \E m \in FallbackMatches :
        \E am \in (IF m = <<>> THEN {<<>>} ELSE SeqsUpTo(RegexNames, MaxMatches)) :
            MultiExtract(m, am)

ResolveNextRef ==
    /\ pc = "loop"
    /\ ref_idx <= Len(patient_refs)
    /\ \E sc \in ScorerOutcomes(roster, patient_refs[ref_idx]) : MultiResolve(sc)

SinglePatient ==
    /\ pc = "single"
    /\ \E sc \in ScorerOutcomes(roster, result.patient_reference) : Single(sc)

NextAnalyze ==
    \/ OracleAnswers
    \/ OracleRaises
    \/ OracleNotAnObject
    \/ FallbackAndDedup
    \/ ResolveNextRef
    \/ MultiFinish
    \/ SinglePatient

SpecAnalyze == InitAnalyze /\ [][NextAnalyze]_vars

(***************************************************************************)
(* Properties of fuzzy_resolve (SpecResolve)                               *)
(***************************************************************************)
Called == outcome # None
Stripped == Strip(IF q = None THEN <<>> ELSE q[1])
NoIdHit == Stripped # <<>> /\ IdHitIdx(roster, Stripped) = {}
AtLeast(n) == {i \in 1..Len(roster) : scores[i] >= n}
IndexOf(p) == CHOOSE i \in 1..Len(roster) : roster[i] = p

\* C7 as claimed: a reference equal to the patient_id of a roster entry
\* resolves to that entry with reason by_id, whatever the other entries are.
C7_ExactIdResolvesById ==
    (Called /\ q # None) =>
        \A i \in 1..Len(roster) :
            roster[i].patient_id = q[1] =>
                /\ outcome[1].resolved = Some(roster[i])
                /\ outcome[1].reason = "by_id"

\* no entry other than i has a patient_id that contains the reference,
\* ignoring case
OnlyIdContaining(i) ==
    \A j \in 1..Len(roster) :
        Contains(Lower(roster[j].patient_id), Lower(Stripped)) => j = i

\* C7 as amended: a reference equal to the non-blank patient_id of a roster
\* entry resolves to that entry with reason by_id, provided no other entry's
\* patient_id contains the reference (ignoring case); the names play no part.
\* If another patient_id contains it, the entries whose ids contain it are
\* returned as ambiguous candidates.
C7_ExactIdResolvesWhenOnlyHit ==
    (Called /\ q # None /\ Stripped # <<>>) =>
        \A i \in 1..Len(roster) :
            roster[i].patient_id = q[1] =>
                IF OnlyIdContaining(i)
                    THEN /\ outcome[1].resolved = Some(roster[i])
                         /\ outcome[1].reason = "by_id"
                         /\ outcome[1].candidates = <<>>
                    ELSE /\ outcome[1].resolved = None
                         /\ outcome[1].reason = "ambiguous"
                         /\ LET cands == outcome[1].candidates
                                hits == {j \in 1..Len(roster) :
                                            Contains(Lower(roster[j].patient_id),
                                                     Lower(Stripped))}
                            IN /\ Len(cands) = Cardinality(hits)
                               /\ {cands[k] : k \in 1..Len(cands)} =
                                      {roster[j] : j \in hits}

\* the id of the third of four entries, in upper case as stored
C7_Witness ==
    /\ Called
    /\ Len(roster) >= 4
    /\ q = Some(roster[3].patient_id)
    /\ OnlyIdContaining(3)
    /\ outcome[1].resolved = Some(roster[3])
    /\ outcome[1].reason = "by_id"

\* C8: with no id hit, an entry is returned as resolved only if its score is
\* the best and at least 80 (reason by_name); with the best score below 80
\* nothing is resolved and the candidates are the entries scoring at least
\* 60, best first, at most 5 of them, with reason ambiguous; an entry
\* scoring 79 is never resolved.
C8_NameThresholds ==
    (Called /\ NoIdHit /\ Len(roster) > 0) =>
        LET o == outcome[1] IN
        /\ o.resolved # None =>
              /\ o.reason = "by_name"
              /\ o.candidates = <<>>
              /\ \E i \in 1..Len(roster) :
                    /\ o.resolved = Some(roster[i])
                    /\ scores[i] >= 80
                    /\ \A j \in 1..Len(roster) : scores[j] <= scores[i]
        /\ AtLeast(80) = {} =>
              /\ o.resolved = None
              /\ Len(o.candidates) = Min(5, Cardinality(AtLeast(60)))
              /\ \A k \in 1..Len(o.candidates) :
                    /\ o.candidates[k] \in {roster[i] : i \in AtLeast(60)}
                    /\ \A j \in 1..Len(roster) :
                          scores[j] > scores[IndexOf(o.candidates[k])] =>
                              \E m \in 1..Len(o.candidates) :
                                  o.candidates[m] = roster[j]
              /\ o.reason = IF o.candidates # <<>> THEN "ambiguous" ELSE "none"
        /\ \A i \in 1..Len(roster) :
              scores[i] = 79 => o.resolved # Some(roster[i])

\* a best score of 79 among six entries that all score 60 or more: nothing
\* is resolved and five candidates are returned
C8_Witness ==
    /\ Called /\ NoIdHit
    /\ AtLeast(80) = {}
    /\ \E i \in 1..Len(roster) : scores[i] = 79
    /\ Cardinality(AtLeast(60)) > 5
    /\ Len(outcome[1].candidates) = 5

\* the roster indexes whose patient_id contains the reference, ignoring case
IdHits ==
    {i \in 1..Len(roster) :
        Contains(Lower(roster[i].patient_id), Lower(Stripped))}

NoneTriple == Resolution(None, <<>>, "none")

\* C19: the substring match on patient_id comes first: exactly one entry hit
\* is returned with reason by_id; more than one hit gives no resolved
\* patient, all the hits as candidates in roster order and reason ambiguous;
\* in both cases the scorer is not called.
C19_IdStepFirst ==
    (Called /\ Stripped # <<>>) =>
        LET o == outcome[1] IN
        /\ Cardinality(IdHits) = 1 =>
              /\ \A i \in IdHits : o.resolved = Some(roster[i])
              /\ o.candidates = <<>>
              /\ o.reason = "by_id"
        /\ Cardinality(IdHits) > 1 =>
              /\ o.resolved = None
              /\ Len(o.candidates) = Cardinality(IdHits)
              /\ \A k \in 1..Len(o.candidates) :
                    \E i \in IdHits :
                        /\ o.candidates[k] = roster[i]
                        /\ Cardinality({j \in IdHits : j < i}) = k - 1
              /\ o.reason = "ambiguous"
        /\ IdHits # {} => scores = <<>>

\* a part of an id that two of at least three entries contain
C19_Witness ==
    /\ Called
    /\ Len(roster) >= 3
    /\ q = Some(<<" ", "A">>)
    /\ Cardinality(IdHits) = 2
    /\ outcome[1].reason = "ambiguous"
    /\ Len(outcome[1].candidates) = 2

\* C20: a missing, empty or blank reference gives (None, [], none) whatever
\* the roster is, and so does a reference with no id hit and no name score
\* of 60 or more; reason none never comes with a resolved patient or with
\* candidates.
C20_NoneOutcome ==
    Called =>
        /\ Stripped = <<>> => (outcome[1] = NoneTriple /\ scores = <<>>)
        /\ (NoIdHit /\ AtLeast(60) = {}) => outcome[1] = NoneTriple
        /\ outcome[1].reason = "none" => outcome[1] = NoneTriple

\* every name of a roster of at least two entries scores 59
C20_Witness ==
    /\ Called /\ NoIdHit
    /\ Len(roster) >= 2
    /\ \A i \in 1..Len(roster) : scores[i] = 59
    /\ outcome[1] = NoneTriple

\* a blank reference against a roster that is not empty
C20_BlankWitness ==
    /\ Called
    /\ q = Some(<<" ">>)
    /\ Len(roster) >= 2
    /\ outcome[1] = NoneTriple

(***************************************************************************)
(* Properties of analyze_query_with_slm (SpecAnalyze)                      *)
(***************************************************************************)
Returned == pc = "done"
ResolvedCalls == {i \in 1..Len(resolverCalls) : resolverCalls[i].resolved # None}
UnresolvedCalls == {i \in 1..Len(resolverCalls) : resolverCalls[i].resolved = None}
ResolvedIds == {resolverCalls[i].resolved[1].patient_id : i \in ResolvedCalls}

\* the references whose fuzzy_resolve call returned no patient, in call order
RECURSIVE RefsOf(_, _)
RefsOf(idx, i) ==
    IF i > Len(resolverCalls) THEN <<>>
    ELSE (IF i \in idx THEN <<resolverCalls[i].ref>> ELSE <<>>) \o RefsOf(idx, i + 1)

\* the multi-patient path was taken with n >= 2 surviving references, each
\* resolved once, in mention order
MultiReturned ==
    /\ Returned
    /\ path = "multi"

PartlyResolved == MultiReturned /\ ResolvedCalls # {} /\ UnresolvedCalls # {}

\* C1 as claimed: on the multi-patient path, when some but not all
\* references resolve, the intent is patient_specific_not_found with the
\* unresolved references recorded, never multi_patient over the resolved
\* subset.
C1_PartialResolutionRefused ==
    PartlyResolved =>
        /\ result.intent = "patient_specific_not_found"
        /\ result.resolved_patients = <<>>
        /\ result.unresolved_refs = Some(RefsOf(UnresolvedCalls, 1))

\* C1 as amended: when some but not all references resolve, the intent is
\* patient_specific_not_found, with resolved_patients empty, if fewer than 2
\* distinct patients resolve, and multi_patient over the resolved patients
\* if 2 or more do; in both cases the unresolved references are recorded.
C1_PartialResolutionOutcome ==
    PartlyResolved =>
        /\ result.unresolved_refs = Some(RefsOf(UnresolvedCalls, 1))
        /\ Cardinality(ResolvedIds) < 2 =>
              /\ result.intent = "patient_specific_not_found"
              /\ result.resolved_patients = <<>>
        /\ Cardinality(ResolvedIds) >= 2 =>
              /\ result.intent = "multi_patient"
              /\ {result.resolved_patients[k].patient_id :
                     k \in 1..Len(result.resolved_patients)} = ResolvedIds
              /\ Len(result.resolved_patients) = Cardinality(ResolvedIds)

\* three references, two resolve to different patients, one does not
C1_Witness ==
    /\ PartlyResolved
    /\ Len(patient_refs) = 3
    /\ Cardinality(ResolvedIds) = 2
    /\ result.intent = "multi_patient"
    /\ result.unresolved_refs # None
    /\ Len(result.unresolved_refs[1]) = 1

\* C2: analyze_query_with_slm never raises to its caller.
C2_NeverRaises == pc # "raised"

\* C3: when the oracle call raises, the decision is general at confidence
\* 0.5 with nothing resolved, and the resolver is never called.
C3_OracleFailureGivesGeneral ==
    oracle_failed =>
        /\ pc \in {"single", "done"}
        /\ result.intent = "general"
        /\ result.confidence = 5
        /\ result.resolved_patient = None
        /\ result.resolved_patients = <<>>
        /\ result.candidates = <<>>
        /\ resolverCalls = <<>>

C3_Witness == oracle_failed /\ Returned /\ locked_patient # None

\* C4: on the multi-patient path with n >= 2 surviving references the intent
\* is multi_patient if at least 2 distinct patients resolve and
\* patient_specific_not_found if 0 or 1 resolve; in the latter case
\* resolved_patients stays empty and the unresolved list is exactly the
\* references that did not resolve, in mention order.
C4_MultiPatientOutcome ==
    MultiReturned =>
        /\ Len(patient_refs) >= 2
        /\ Len(resolverCalls) = Len(patient_refs)
        /\ \A i \in 1..Len(patient_refs) : resolverCalls[i].ref = patient_refs[i]
        /\ Cardinality(ResolvedIds) >= 2 => result.intent = "multi_patient"
        /\ Cardinality(ResolvedIds) <= 1 =>
              /\ result.intent = "patient_specific_not_found"
              /\ result.resolved_patients = <<>>
              /\ result.unresolved_refs = Some(RefsOf(UnresolvedCalls, 1))

\* three references named, one resolves: not found, two unresolved
C4_Witness ==
    /\ MultiReturned
    /\ Len(patient_refs) = 3
    /\ Cardinality(ResolvedIds) = 1
    /\ result.intent = "patient_specific_not_found"
    /\ result.unresolved_refs # None
    /\ Len(result.unresolved_refs[1]) = 2

SingleWithRef == Returned /\ path \in {"single_ref", "demoted_ref"}
SingleWithoutRef == Returned /\ path \in {"single_noref", "demoted_noref"}

\* C9: on the single-patient path with a non-empty reference the decision
\* follows the resolver: resolved -> patient_specific with resolved_patient
\* set and no candidates; ambiguous -> patient_specific with the candidates
\* and no resolved_patient; no match -> patient_specific_not_found with both
\* empty.
C9_SingleFollowsResolver ==
    SingleWithRef =>
        /\ Len(resolverCalls) = 1
        /\ Truthy(result.patient_reference)
        /\ resolverCalls[1].ref = result.patient_reference
        /\ LET c == resolverCalls[1] IN
           /\ c.resolved # None =>
                 /\ result.intent = "patient_specific"
                 /\ result.resolved_patient = c.resolved
                 /\ result.candidates = <<>>
           /\ (c.resolved = None /\ c.candidates # <<>>) =>
                 /\ result.intent = "patient_specific"
                 /\ result.candidates = c.candidates
                 /\ result.resolved_patient = None
           /\ (c.resolved = None /\ c.candidates = <<>>) =>
                 /\ result.intent = "patient_specific_not_found"
                 /\ result.candidates = <<>>
                 /\ result.resolved_patient = None

\* the ambiguous case: candidates returned to the caller
C9_Witness ==
    /\ SingleWithRef
    /\ resolverCalls[1].reason = "ambiguous"
    /\ Len(result.candidates) >= 2

\* C10: on the single-patient path with no extracted reference the intent is
\* patient_specific_use_locked with resolved_patient the lock when a locked
\* patient was passed in, else patient_specific_no_context with
\* resolved_patient null; the resolver is not called.
C10_NoReferenceUsesLock ==
    SingleWithoutRef =>
        /\ ~Truthy(result.patient_reference)
        /\ resolverCalls = <<>>
        /\ locked_patient # None =>
              /\ result.intent = "patient_specific_use_locked"
              /\ result.resolved_patient = locked_patient
        /\ locked_patient = None =>
              /\ result.intent = "patient_specific_no_context"
              /\ result.resolved_patient = None

C10_Witness ==
    /\ SingleWithoutRef
    /\ locked_patient # None
    /\ result.resolved_patient = locked_patient

IntentKind ==
    {"general", "patient_specific", "patient_specific_use_locked",
     "patient_specific_no_context", "patient_specific_not_found",
     "multi_patient"}

\* C12: the intent of every returned decision is a member of the closed set
\* of intent kinds.
C12_IntentInClosedSet == Returned => result.intent \in IntentKind

\* C15: a patient_specific_not_found decision carries what failed: on the
\* single-patient path patient_reference is the non-empty reference the
\* resolver was called with, on the multi-patient path the unresolved list
\* is not empty.
C15_NotFoundNamesReference ==
    (Returned /\ result.intent = "patient_specific_not_found") =>
        /\ path \in {"single_ref", "demoted_ref"} =>
              /\ Truthy(result.patient_reference)
              /\ Len(resolverCalls) >= 1
              /\ resolverCalls[Len(resolverCalls)].ref = result.patient_reference
        /\ path = "multi" =>
              /\ result.unresolved_refs # None
              /\ result.unresolved_refs[1] # <<>>

\* the oracle said multi_patient and the list passed the merge and the
\* deduplication
PastDedup == path \in {"multi", "demoted", "demoted_ref", "demoted_noref"}
OnDemotedPath == path \in {"demoted", "demoted_ref", "demoted_noref"}

\* the merged list (the oracle's, extended in place by the fallback) and the
\* distinct references in it: lower-cased, stripped, blank ones left out
MergedRefs == result.patient_references[1]
DistinctKeys ==
    {RefKey(MergedRefs[i]) : i \in 1..Len(MergedRefs)} \ {<<>>}

\* the first reference of the merged list that is not blank
FirstSurviving ==
    LET idx == {i \in 1..Len(MergedRefs) : RefKey(MergedRefs[i]) # <<>>}
    IN  IF idx = {} THEN None
        ELSE MergedRefs[CHOOSE i \in idx : \A j \in idx : i <= j]

\* C22: when the oracle says multi_patient and fewer than 2 distinct
\* references survive the merge with the pattern fallback and the
\* case-insensitive deduplication, the call takes the single-patient path
\* with patient_reference the first surviving reference (None when none
\* survives), and then follows the single-patient rules: the decision
\* follows the one resolver call on that reference, or, with no reference,
\* reuses the lock / reports no context without calling the resolver.
C22_DemotedToSinglePatient ==
    PastDedup =>
        /\ OnDemotedPath <=> Cardinality(DistinctKeys) < 2
        /\ OnDemotedPath =>
              /\ result.patient_reference = FirstSurviving
              /\ pc \in {"single", "done"}
              /\ pc = "single" =>
                    result.intent = "patient_specific" /\ resolverCalls = <<>>
              /\ (Returned /\ FirstSurviving # None) =>
                    /\ path = "demoted_ref"
                    /\ Len(resolverCalls) = 1
                    /\ resolverCalls[1].ref = FirstSurviving
                    /\ LET c == resolverCalls[1] IN
                       /\ result.resolved_patient = c.resolved
                       /\ result.candidates =
                             IF c.resolved = None THEN c.candidates ELSE <<>>
                       /\ result.intent =
                             IF c.resolved = None /\ c.candidates = <<>>
                                 THEN "patient_specific_not_found"
                                 ELSE "patient_specific"
              /\ (Returned /\ FirstSurviving = None) =>
                    /\ path = "demoted_noref"
                    /\ resolverCalls = <<>>
                    /\ result.candidates = <<>>
                    /\ result.resolved_patient = locked_patient
                    /\ result.intent =
                          IF locked_patient # None
                              THEN "patient_specific_use_locked"
                              ELSE "patient_specific_no_context"

\* two spellings of one reference came; the one that survives is resolved
C22_Witness ==
    /\ Returned
    /\ path = "demoted_ref"
    /\ Len(MergedRefs) >= 2
    /\ Cardinality(DistinctKeys) = 1
    /\ result.resolved_patient # None

\* no reference survives and the lock is reused
C22_LockWitness ==
    /\ Returned
    /\ path = "demoted_noref"
    /\ Len(MergedRefs) >= 1
    /\ locked_patient # None
    /\ result.intent = "patient_specific_use_locked"

\* the patients the resolver calls returned, each at the call that returned
\* it first
RECURSIVE FirstResolved(_, _)
FirstResolved(i, seen_ids) ==
    IF i > Len(resolverCalls) THEN <<>>
    ELSE LET c == resolverCalls[i]
         IN  IF c.resolved # None /\ c.resolved[1].patient_id \notin seen_ids
                 THEN <<c.resolved[1]>>
                      \o FirstResolved(i + 1,
                                       seen_ids \cup {c.resolved[1].patient_id})
                 ELSE FirstResolved(i + 1, seen_ids)

\* C21: in a multi_patient decision resolved_patients has no two entries
\* with the same patient_id, and holds the resolved patients in the order of
\* the references: the resolver is called on the surviving references in
\* their order, and the first reference to resolve to a patient fixes that
\* patient's position.
C21_ResolvedPatientsUniqueInOrder ==
    (Returned /\ result.intent = "multi_patient") =>
        LET rp == result.resolved_patients
        IN  /\ path = "multi"
            /\ \A i, j \in 1..Len(rp) :
                   i # j => rp[i].patient_id # rp[j].patient_id
            /\ Len(resolverCalls) = Len(patient_refs)
            /\ \A i \in 1..Len(patient_refs) :
                   resolverCalls[i].ref = patient_refs[i]
            /\ rp = FirstResolved(1, {})

\* three references, the first and the third resolve to the same patient
C21_Witness ==
    /\ Returned
    /\ result.intent = "multi_patient"
    /\ Len(resolverCalls) = 3
    /\ ResolvedCalls = {1, 2, 3}
    /\ resolverCalls[1].resolved = resolverCalls[3].resolved
    /\ resolverCalls[1].resolved # resolverCalls[2].resolved
    /\ Len(result.resolved_patients) = 2

\* C28: every returned decision has the shape of its intent:
\* resolved_patient is set only for patient_specific and
\* patient_specific_use_locked; candidates is non-empty only for
\* patient_specific with resolved_patient null; resolved_patients is
\* non-empty only for multi_patient, which has at least 2 entries; for
\* general, patient_specific_not_found and patient_specific_no_context all
\* three are empty.
C28_DecisionShape ==
    Returned =>
        /\ result.resolved_patient # None =>
              result.intent \in {"patient_specific", "patient_specific_use_locked"}
        /\ result.candidates # <<>> =>
              /\ result.intent = "patient_specific"
              /\ result.resolved_patient = None
        /\ result.resolved_patients # <<>> => result.intent = "multi_patient"
        /\ result.intent = "multi_patient" => Len(result.resolved_patients) >= 2
        /\ result.intent \in {"general", "patient_specific_not_found",
                              "patient_specific_no_context"} =>
              /\ result.resolved_patient = None
              /\ result.candidates = <<>>
              /\ result.resolved_patients = <<>>

\* the oracle said multi_patient, two references came and one patient
\* resolved: not found, with nothing resolved in the decision
C28_Witness ==
    /\ Returned
    /\ path = "multi"
    /\ Cardinality(ResolvedIds) = 1
    /\ result.intent = "patient_specific_not_found"
    /\ result.resolved_patients = <<>>

\* the other shapes: candidates, a resolved patient, the lock, two patients
C28_CandidatesWitness ==
    /\ Returned
    /\ result.intent = "patient_specific"
    /\ result.candidates # <<>>
C28_ResolvedWitness ==
    /\ Returned
    /\ result.intent = "patient_specific"
    /\ result.resolved_patient # None
C28_LockWitness ==
    /\ Returned
    /\ result.intent = "patient_specific_use_locked"
    /\ result.resolved_patient # None
C28_MultiWitness ==
    /\ Returned
    /\ result.intent = "multi_patient"
    /\ Len(result.resolved_patients) = 2

(***************************************************************************)
(* build_roster_from_supabase on its own: the rows the query returned are  *)
(* drawn in the initial state.                                             *)
(***************************************************************************)
\* how a row's metadata carries the patient id: not at all, under either
\* of two aliases, as an empty string, or as JSON null
IdParts ==
    {EmptyDict,
     [k \in {"patient_id"} |-> Some(<<"a">>)],
     [k \in {"patient_id"} |-> Some(<<"b">>)],
     [k \in {"Patient_Id"} |-> Some(<<"a">>)],
     [k \in {"patient_id"} |-> Some(<<>>)],
     [k \in {"patient_id"} |-> None]}

NameParts ==
    {EmptyDict,
     [k \in {"First_Name"} |-> Some(<<"x">>)],
     [k \in {"first_name", "Last_Name"} |-> Some(<<"z">>)]}

DbRows ==
    {[metadata |-> None]}
    \cup {[metadata |-> Some(id @@ name)] : id \in IdParts, name \in NameParts}

InitRoster ==
    /\ roster = <<>>
    /\ db_rows \in SeqsUpTo(DbRows, MaxRows)
    /\ built = None
    /\ ResolveIdle
    /\ AnalyzeIdle
    /\ AssembleIdle
    /\ SessionIdle

NextRoster == BuildRoster

SpecRoster == InitRoster /\ [][NextRoster]_vars

\* the patient id a row carries, None when it carries none: no metadata, no
\* id key, an empty value or null
RowId(row) ==
    LET md == MetadataOf(row)
        ks == {k \in {"patient_id", "Patient_Id", "PatientID"} :
                  k \in DOMAIN md /\ md[k] # None /\ md[k][1] # <<>>}
    IN  IF ks = {} THEN None ELSE Some(md[CHOOSE k \in ks : TRUE][1])

\* C16: no two entries of the roster share a patient_id; every entry comes
\* from the first row that carries its patient_id, with that row's field
\* values; every id carried by some row has its entry; rows that carry no
\* patient_id contribute nothing.
C16_RosterDedup ==
    built # None =>
        LET r == built[1] IN
        /\ \A j, k \in 1..Len(r) : r[j].patient_id = r[k].patient_id => j = k
        /\ \A k \in 1..Len(r) :
              \E i \in 1..Len(db_rows) :
                  /\ RowId(db_rows[i]) = Some(r[k].patient_id)
                  /\ \A h \in 1..(i - 1) : RowId(db_rows[h]) # RowId(db_rows[i])
                  /\ r[k] = RosterEntry(MetadataOf(db_rows[i]), r[k].patient_id)
        /\ \A i \in 1..Len(db_rows) :
              RowId(db_rows[i]) # None =>
                  \E k \in 1..Len(r) : Some(r[k].patient_id) = RowId(db_rows[i])

(***************************************************************************)
(* The multi-patient branch on its own: the resolved patients and the      *)
(* prompt are drawn in the initial state, the backend's rows where the     *)
(* code calls it.                                                          *)
(***************************************************************************)
\* lists of 2..MaxPatients patients with pairwise distinct patient_ids
PatientLists ==
    {[k \in 1..Len(FilterIdx(S, MaxPatients, 1)) |->
          Patient(FilterIdx(S, MaxPatients, 1)[k])] :
        S \in {T \in SUBSET (1..MaxPatients) : Cardinality(T) >= 2}}

InitAssemble ==
    /\ roster = Directory(MaxPatients)
    /\ patients \in PatientLists
    /\ wants_height \in BOOLEAN
    /\ stage = "passes"
    /\ pidx = 1
    /\ pass_no = 1
    /\ patient_hits = <<>>
    /\ seen_chunk_ids = {}
    /\ patient_chunks = <<>>
    /\ context = <<>>
    /\ ctx_block = <<>>
    /\ returned_any = {}
    /\ merged = [i \in 1..Len(patients) |-> <<>>]
    /\ emergency_len = 0
    /\ emergency_kept = <<>>
    /\ last_call = NoCall
    /\ ResolveIdle
    /\ AnalyzeIdle
    /\ RosterIdle
    /\ SessionIdle

MatchPatientChunks ==
    /\ stage = "passes"
    /\ \E hits \in Retrievals(ScopedTo(p_patient_id(patients[pidx]))) :
          RetrievalPass(hits)

EmergencyQuery ==
    /\ stage = "emergency"
    /\ \E hits \in Retrievals(ScopedTo(p_patient_id(patients[pidx]))) :
          EmergencyCall(hits)

NextAssemble ==
    \/ MatchPatientChunks
    \/ EmergencyQuery
    \/ EmergencyNotNeeded
    \/ Interleave

SpecAssemble == InitAssemble /\ [][NextAssemble]_vars

\* the branch run for two named patients, every pair of the directory
InitPairs == InitAssemble /\ Len(patients) = 2

SpecPairs == InitPairs /\ [][NextAssemble]_vars

(***************************************************************************)
(* Properties of the multi-patient branch (SpecAssemble)                   *)
(***************************************************************************)
Assembled == stage = "done"

\* item k of a context is a chunk of patient i under patient i's label
OwnChunk(item, i) ==
    /\ item.tag = "chunk"
    /\ item.label = PatientName(patients[i])
    /\ item.metadata.patient_id = patients[i].patient_id

\* C5: every patient for whom the retrieval passes (the emergency pass
\* included) returned at least one chunk has a chunk of their own, under
\* their label, in the context block that is sent, after the item cap.
C5_EveryPatientRepresented ==
    Assembled =>
        \A i \in 1..Len(patients) :
            i \in returned_any =>
                \E k \in 1..Len(ctx_block) : OwnChunk(ctx_block[k], i)

\* no two entries of a kept list share a chunk identity
UniqueIdentities(kept) ==
    \A i, j \in 1..Len(kept) :
        i # j => ChunkId(kept[i].h) # ChunkId(kept[j].h)

\* the rows of a call that are new to a kept list: identity not yet kept and
\* not that of an earlier row of the same call, in the call's order
NewRows(kept, hits) ==
    LET idx == {k \in 1..Len(hits) :
                   /\ ChunkId(hits[k]) \notin ChunkIds(kept)
                   /\ \A j \in 1..(k - 1) : ChunkId(hits[j]) # ChunkId(hits[k])}
        order == FilterIdx(idx, Len(hits), 1)
    IN  [m \in 1..Len(order) |-> hits[order[m]]]

\* every list of kept chunks the branch holds is free of repeated identity
KeptListsUnique ==
    /\ UniqueIdentities(patient_hits)
    /\ UniqueIdentities(emergency_kept)
    /\ \A n \in DOMAIN patient_chunks : UniqueIdentities(patient_chunks[n])

\* a call of the regular passes: the patient's list keeps what it held, in
\* order, and gains the new rows of the call behind it; after the last
\* strategy the list is the patient's stored set
RegularCallMerges ==
    LET name == PatientName(patients[pidx])
        after == IF pass_no < LastPass THEN patient_hits'
                 ELSE Lookup(patient_chunks', name)
    IN  Rows(after) = Rows(patient_hits) \o NewRows(patient_hits, last_call'.hits)

\* a call of the emergency retrieval: the same for the emergency rows, which
\* join the patient's stored set after the last emergency query
EmergencyCallMerges ==
    LET name == PatientName(patients[pidx])
        more == pidx' = pidx /\ stage' = stage
        after == IF more THEN emergency_kept'
                 ELSE Lookup(patient_chunks', name)
    IN  Rows(after) =
            Rows(IF more THEN <<>> ELSE Lookup(patient_chunks, name))
            \o Rows(emergency_kept)
            \o NewRows(emergency_kept, last_call'.hits)

CallMerges ==
    /\ stage = "passes" => RegularCallMerges
    /\ (stage = "emergency"
          /\ NeedsEmergency(patient_chunks, PatientName(patients[pidx])))
            => EmergencyCallMerges
    /\ KeptListsUnique'

\* C23: within one patient's merged chunk set (the regular passes, and the
\* emergency pass) no two kept chunks share a chunk identity (the id, else
\* the first 50 characters of the content), and every retrieval call leaves
\* the chunks already kept in place and appends only the rows whose identity
\* is new, in the order returned: first-seen order across passes, and a
\* repeated phrase returning a chunk already kept adds nothing.
C23_MergedChunksUnique == [][CallMerges]_vars

\* a later pass returned the chunk kept first, after another was kept
C23_Witness ==
    /\ stage = "passes"
    /\ Len(patient_hits) = 2
    /\ last_call.hits # <<>>
    /\ last_call.slot = pidx
    /\ ChunkId(last_call.hits[1]) = ChunkId(patient_hits[1].h)

\* two rows without id whose contents agree on the first 50 characters: the
\* second was returned and not kept
C23_PrefixWitness ==
    /\ stage = "passes"
    /\ Len(patient_hits) = 1
    /\ last_call.hits # <<>>
    /\ last_call.slot = pidx
    /\ patient_hits[1].h.id = None
    /\ last_call.hits[1] # patient_hits[1].h
    /\ ChunkId(last_call.hits[1]) = ChunkId(patient_hits[1].h)

\* the emergency retrieval returned the same chunk twice and kept it once
C23_EmergencyWitness ==
    /\ stage = "emergency"
    /\ last_call.emergency
    /\ last_call.slot = pidx
    /\ emergency_len = 2
    /\ Len(emergency_kept) = 1

\* label is the label of the named patient whose patient_id is pid
OwnLabel(pid, label) ==
    \E i \in 1..Len(patients) :
        /\ patients[i].patient_id = pid
        /\ PatientName(patients[i]) = label

LabelledByOwner(kept) ==
    \A k \in 1..Len(kept) :
        OwnLabel(kept[k].h.metadata.patient_id, kept[k].name)

ChunkItems(ctx) == {k \in 1..Len(ctx) : ctx[k].tag = "chunk"}

RECURSIVE ExpectedRound(_, _)
ExpectedRound(r, i) ==
    IF i > Len(patients) THEN <<>>
    ELSE (IF r <= Len(merged[i])
              THEN <<ChunkItem(PatientName(patients[i]), merged[i][r])>>
              ELSE <<>>)
         \o ExpectedRound(r, i + 1)

RECURSIVE ExpectedBody(_)
ExpectedBody(r) ==
    IF \A i \in 1..Len(patients) : r > Len(merged[i]) THEN <<>>
    ELSE ExpectedRound(r, 1) \o ExpectedBody(r + 1)

\* C6: the interleaved body is ordered by (round index, patient index in the
\* resolved-patient order); a patient with no chunk at a round is skipped and
\* a patient with zero chunks contributes nothing.
C6_RoundRobinOrder ==
    Assembled => SubSeq(context, 2, Len(context)) = ExpectedBody(1)

\* the items of the body that are rows of patient i's partition, in order
BodyOf(i) ==
    LET FromPatient(item) ==
            item.metadata.patient_id = patients[i].patient_id
    IN  SelectSeq(SubSeq(context, 2, Len(context)), FromPatient)

\* the chunks kept for patient i, as items under patient i's label
KeptItems(i) ==
    [k \in 1..Len(merged[i]) |->
        ChunkItem(PatientName(patients[i]), merged[i][k])]

\* C25: each chunk kept for a patient is emitted exactly once in the
\* interleaved body, and the count the summary line shows for a patient is
\* the number of body items that came from that patient's own retrieval,
\* for every list of resolved patients with distinct patient_ids.
C25_ChunksEmittedOnce ==
    Assembled =>
        \A i \in 1..Len(patients) :
            /\ BodyOf(i) = KeptItems(i)
            /\ context[1].counts[i].chunk_count = Len(BodyOf(i))

\* the same for lists of patients whose names differ pairwise
DistinctNames ==
    \A i, j \in 1..Len(patients) :
        i # j => PatientName(patients[i]) # PatientName(patients[j])
ChunksEmittedOnceUnderDistinctNames == DistinctNames => C25_ChunksEmittedOnce

(***************************************************************************)
(* The chat session: script runs of app.py over one session state.  The    *)
(* roster is loaded once; each run is a Clear click or a chat input.       *)
(***************************************************************************)
MaxTurns == 3           \* script runs (Clear clicks and chat inputs) followed

\* ROSTER, loaded at start-up (line 27) and not empty (lines 29-31): two
\* patients, the id of one containing the id of the other
SessionRoster == <<Patient(1), Patient(2)>>

\* chat inputs: one that selects the first candidate of a disambiguation
\* prompt and one that selects none
SessionPrompts == {<<"1">>, <<"q">>}

\* what the oracle answers in the session: every intent, and a reference
\* that is an id, one that two ids contain and one that only names can match
SessionResponses ==
    {Response(Some("general"), None, FALSE, None, Some(9)),
     Response(Some("smalltalk"), None, FALSE, None, Some(9)),
     Response(Some("multi_patient"), Some(<<"q">>), TRUE,
              Some(<<Some(<<"b">>), Some(<<"q">>)>>), Some(9))}
    \cup {Response(Some("patient_specific"), pref, TRUE, Some(<<>>), Some(9)) :
             pref \in {None, Some(<<"a">>), Some(<<"b">>), Some(<<"q">>)}}

\* a row of the patient's partition whose content is the empty string
EmptyRow(p) == Row(Some(<<"0">>), <<>>, DirectoryIndex(p))

\* match_patient_chunks(prompt, patient_id, k=6) of the single-patient branches
PatientRetrievals(p) ==
    {h \in SeqsUpTo(Partition(DirectoryIndex(p)) \cup {EmptyRow(p)}, MaxHits) :
        IsInjective(h)}

\* match_general_documents(prompt, k=6): rows of documents of no patient
GeneralDocument(id, content) ==
    [id |-> Some(id), content |-> content, metadata |-> [patient_id |-> <<>>]]
GeneralRetrievals ==
    {h \in SeqsUpTo({GeneralDocument(<<"8">>, <<"g">>),
                     GeneralDocument(<<"9">>, <<>>)}, MaxHits) : IsInjective(h)}

\* the locals of analyze_query_with_slm are gone once it has returned
AnalyzeLocalsDropped ==
    /\ locked_patient' = None
    /\ pc' = "idle"
    /\ patient_refs' = <<>>
    /\ resolved_patients' = <<>>
    /\ unresolved_refs' = <<>>
    /\ ref_idx' = 0
    /\ oracle_failed' = FALSE
    /\ path' = "none"
    /\ resolverCalls' = <<>>

AssembleLocalsDropped ==
    /\ patients' = <<>>
    /\ wants_height' = FALSE
    /\ stage' = "idle"
    /\ pidx' = 0
    /\ pass_no' = 0
    /\ patient_hits' = <<>>
    /\ seen_chunk_ids' = {}
    /\ patient_chunks' = <<>>
    /\ context' = <<>>
    /\ ctx_block' = <<>>
    /\ returned_any' = {}
    /\ merged' = <<>>
    /\ emergency_len' = 0
    /\ emergency_kept' = <<>>
    /\ last_call' = NoCall

\* st.rerun(), the end of the script or an exception: the run is over
EndRun ==
    /\ run' = "idle"
    /\ prompt' = None
    /\ result' = BlankResult
    /\ AnalyzeLocalsDropped
    /\ AssembleLocalsDropped

StartTurn(kind) ==
    [NoTurn EXCEPT !.n = turn.n + 1, !.kind = kind,
                   !.locked_before = ss_locked_patient,
                   !.active_before = active_patients,
                   !.pending_before = awaiting_disambiguation]

\* ---- lines 44-92: the Clear button, shown while a patient is active
ClearClicked ==
    /\ run = "idle"
    /\ turn.n < MaxTurns
    /\ active_patients # <<>> \/ ss_locked_patient # None
    /\ active_patients' = <<>>
    /\ ss_locked_patient' = None
    /\ messages' = Append(messages, Message("assistant", ClearedText))
    /\ turn' = StartTurn("clear")
    /\ sent' = None
    /\ ctx_text' = None
    /\ UNCHANGED <<roster, awaiting_disambiguation, prompt, run, resolveVars,
                   analyzeVars, assembleVars, rosterVars>>

\* ---- lines 109-158: a chat input; the reply to a disambiguation prompt is
\* handled whole, any other input goes to analyze_query_with_slm
ChatInput(p) ==
    /\ run = "idle"
    /\ turn.n < MaxTurns
    /\ sent' = None
    /\ ctx_text' = None
    /\ LET msgs == Append(messages, Message("user", p))
       IN  IF awaiting_disambiguation # None
               THEN LET selected ==
                            SelectedCandidate(p, awaiting_disambiguation[1])
                    IN  /\ IF selected # None
                              THEN /\ ss_locked_patient' = selected
                                   /\ awaiting_disambiguation' = None
                                   /\ messages' =
                                        Append(msgs, Message("assistant",
                                                   LockedText(selected[1])))
                                   /\ turn' = StartTurn("reply_selected")
                              ELSE /\ messages' =
                                        Append(msgs,
                                               Message("assistant", NoMatchText))
                                   /\ turn' = StartTurn("reply_unmatched")
                                   /\ UNCHANGED <<ss_locked_patient,
                                                  awaiting_disambiguation>>
                        /\ UNCHANGED <<prompt, run, analyzeVars>>
               ELSE /\ messages' = msgs
                    /\ prompt' = Some(p)
                    /\ run' = "analyze"
                    /\ turn' = StartTurn("query")
                    /\ pc' = "invoke"
                    /\ locked_patient' = ss_locked_patient
                    /\ UNCHANGED <<ss_locked_patient, awaiting_disambiguation,
                                   result, patient_refs, resolved_patients,
                                   unresolved_refs, ref_idx, oracle_failed,
                                   path, resolverCalls>>
    /\ UNCHANGED <<roster, active_patients, resolveVars, assembleVars,
                   rosterVars>>

\* ---- an exception left analyze_query_with_slm: the script run dies
AnalysisRaised ==
    /\ run = "analyze"
    /\ pc = "raised"
    /\ turn' = [turn EXCEPT !.kind = "raised"]
    /\ EndRun
    /\ UNCHANGED <<roster, ss_locked_patient, active_patients, messages,
                   awaiting_disambiguation, sent, ctx_text, resolveVars,
                   rosterVars>>

\* lines 161-413: the branch the elif chain takes for an analysis
RouteKindMut(a) ==
    IF Len(a.resolved_patients) >= 2 THEN "multi"
    ELSE IF a.resolved_patient # None THEN "resolved"
    ELSE IF a.candidates # <<>> THEN "candidates"
    ELSE IF a.intent = "patient_specific_no_context" THEN "no_context"
    ELSE "general"
RouteKind(a) ==
    IF Len(a.resolved_patients) >= 2 THEN "multi"
    ELSE IF a.resolved_patient # None THEN "resolved"
    ELSE IF a.candidates # <<>> THEN "candidates"
    ELSE IF a.intent = "patient_specific_use_locked" THEN "use_locked"
    ELSE IF a.intent = "patient_specific_no_context" THEN "no_context"
    ELSE IF a.intent = "patient_specific_not_found" THEN "not_found"
    ELSE "general"

TerminalKinds == {"candidates", "no_context", "not_found"}

\* the clarification a terminal branch appends (lines 358-365, 385-389,
\* 394-403)
Clarification(a) ==
    CASE RouteKind(a) = "candidates" ->
            CandidatesText(a.patient_reference, a.candidates)
      [] RouteKind(a) = "no_context" -> NoContextText
      [] OTHER ->
            IF a.unresolved_refs # None /\ a.unresolved_refs[1] # <<>>
                THEN NotFoundText(<<"refs">>)
                ELSE NotFoundText(Str(a.patient_reference))

\* lines 339-343: "Only update lock if it's a different patient"
LockDiffersMut(locked, patient) == TRUE
LockDiffers(locked, patient) ==
    locked = None \/ locked[1].patient_id # patient.patient_id

\* ---- lines 161-413: analyze_query_with_slm has returned; the session's
\* lock is updated and the run goes on to retrieval or ends with a
\* clarification
Route ==
    /\ run = "analyze"
    /\ pc = "done"
    /\ LET a == result
           kind == RouteKind(a)
       IN  /\ turn' = [turn EXCEPT !.kind = kind, !.analyzed = TRUE,
                                   !.intent = a.intent, !.path = path,
                                   !.ambiguous = a.candidates # <<>>,
                                   !.clarified = kind \in TerminalKinds]
           /\ ss_locked_patient' =
                 CASE kind = "multi" -> None
                   [] kind = "resolved" /\
                      LockDiffers(ss_locked_patient, a.resolved_patient[1]) ->
                          a.resolved_patient
                   [] OTHER -> ss_locked_patient
           /\ active_patients' =
                 CASE kind = "multi" -> a.resolved_patients
                   [] kind = "resolved" /\
                      LockDiffers(ss_locked_patient, a.resolved_patient[1]) ->
                          <<a.resolved_patient[1]>>
                   [] kind = "use_locked" /\ active_patients = <<>> ->
                          <<ss_locked_patient[1]>>
                   [] OTHER -> active_patients
           /\ awaiting_disambiguation' =
                 IF kind = "candidates" THEN Some(a.candidates)
                 ELSE awaiting_disambiguation
           /\ IF kind \in TerminalKinds
                 THEN /\ messages' =
                           Append(messages,
                                  Message("assistant", Clarification(a)))
                      /\ EndRun
                 ELSE /\ AnalyzeLocalsDropped
                      /\ UNCHANGED <<messages, prompt, result>>
                      /\ IF kind = "multi"
                            THEN /\ run' = "assemble"
                                 /\ patients' = a.resolved_patients
                                 /\ wants_height' =
                                      Contains(Lower(prompt[1]),
                                               <<"h", "e", "i", "g", "h", "t">>)
                                 /\ stage' = "passes"
                                 /\ pidx' = 1
                                 /\ pass_no' = 1
                                 /\ merged' =
                                      [i \in 1..Len(a.resolved_patients) |-> <<>>]
                                 /\ UNCHANGED <<patient_hits, seen_chunk_ids,
                                                patient_chunks, emergency_len,
                                                emergency_kept, context,
                                                ctx_block, returned_any,
                                                last_call>>
                            ELSE /\ run' = "retrieve"
                                 /\ UNCHANGED assembleVars
    /\ UNCHANGED <<roster, sent, ctx_text, resolveVars, rosterVars>>

\* the patient of a single-patient answering branch (lines 336, 370)
BranchPatient ==
    IF turn.kind = "resolved" THEN result.resolved_patient[1]
    ELSE ss_locked_patient[1]

\* ---- lines 349-352, 377-380, 409-412: the one retrieval call of the
\* single-patient and general branches
Retrieve(hits) ==
    /\ run = "retrieve"
    /\ context' = PlainContext(hits)
    /\ run' = "build"
    /\ turn' = [turn EXCEPT !.retrievals = @ + 1]
    /\ UNCHANGED <<roster, ss_locked_patient, active_patients, messages,
                   awaiting_disambiguation, prompt, sent, ctx_text,
                   resolveVars, analyzeVars, rosterVars, patients,
                   wants_height, stage, pidx, pass_no, patient_hits,
                   seen_chunk_ids, patient_chunks, emergency_len,
                   emergency_kept, ctx_block, returned_any, merged,
                   last_call>>

RetrieveContext ==
    /\ run = "retrieve"
    /\ \E hits \in (IF turn.kind = "general" THEN GeneralRetrievals
                    ELSE PatientRetrievals(BranchPatient)) : Retrieve(hits)

\* the system message of the answering branches (lines 319-332, 353, 381, 413)
SystemText(kind, ps) ==
    CASE kind = "multi" -> <<"compare information for these patients">>
      [] kind = "general" -> <<"You are a medical knowledge assistant.">>
      [] OTHER -> <<"Use ONLY the retrieved patient context for ">>
                  \o PatientName(ps)

\* lines 418-425: the context block as the string it is
BlockText(a, ctx) ==
    JoinText(IF Len(a.resolved_patients) >= 2
                 THEN CtxBlock(ctx, MaxContextChunks(Len(a.resolved_patients)))
                 ELSE CtxBlock(ctx, SingleCap))

\* ---- lines 418-457: context block, message list, stream, saved response
Answer ==
    /\ run = "build" \/ (run = "assemble" /\ stage = "done")
    /\ LET text == BlockText(result, context)
           system == SystemText(turn.kind,
                                IF turn.kind \in {"resolved", "use_locked"}
                                    THEN BranchPatient ELSE Patient(1))
       IN  /\ ctx_text' = Some(text)
           /\ sent' = Some(BuildMessages(system, messages, text, prompt[1]))
    /\ messages' = Append(messages, Message("assistant", AnswerText))
    /\ turn' = [turn EXCEPT !.streamed = TRUE]
    /\ EndRun
    /\ UNCHANGED <<roster, ss_locked_patient, active_patients,
                   awaiting_disambiguation, resolveVars, rosterVars>>

InitSession ==
    /\ roster = SessionRoster
    /\ ResolveIdle
    /\ AnalyzeIdle
    /\ AssembleIdle
    /\ RosterIdle
    /\ SessionIdle

UserInput == \E p \in SessionPrompts : ChatInput(p)

\* in the session the multi-patient calls return nothing or the patient's
\* "h" row
SessionPartition(p) ==
    {r \in Partition(DirectoryIndex(p)) : r.content = <<"h">>}
SessionRetrievals(p) ==
    {h \in SeqsUpTo(SessionPartition(p), MaxHits) : IsInjective(h)}

SessionMatchPatientChunks ==
    /\ stage = "passes"
    /\ \E hits \in SessionRetrievals(ScopedTo(p_patient_id(patients[pidx]))) :
          RetrievalPass(hits)

SessionEmergencyQuery ==
    /\ stage = "emergency"
    /\ \E hits \in SessionRetrievals(ScopedTo(p_patient_id(patients[pidx]))) :
          EmergencyCall(hits)
SessionOracleAnswers == \E rd \in SessionResponses : Invoke("dict", rd)

NextSession ==
    \/ ClearClicked
    \/ UserInput
    \/ SessionOracleAnswers
    \/ OracleRaises
    \/ OracleNotAnObject
    \/ FallbackAndDedup
    \/ ResolveNextRef
    \/ MultiFinish
    \/ SinglePatient
    \/ AnalysisRaised
    \/ Route
    \/ RetrieveContext
    \/ SessionMatchPatientChunks
    \/ SessionEmergencyQuery
    \/ EmergencyNotNeeded
    \/ Interleave
    \/ Answer

SpecSession == InitSession /\ [][NextSession]_vars

(***************************************************************************)
(* Properties of the chat session (SpecSession)                            *)
(***************************************************************************)
LockChanged ==
    ss_locked_patient # turn.locked_before \/ active_patients # turn.active_before

HeldLock == turn.locked_before # None \/ turn.active_before # <<>>

\* C11: a patient-specific query without a reference, asked while the
\* session holds one or several locked patients, is routed as
\* patient_specific_use_locked.
C11_FollowUpUsesLock ==
    (turn.analyzed /\ HeldLock /\ turn.path \in {"single_noref", "demoted_noref"})
        => turn.intent = "patient_specific_use_locked"

\* C13 as claimed: the lock changes only in a run that resolved a patient
\* uniquely, made a multi-patient decision or was a Clear click; a reply to
\* a disambiguation prompt leaves it unchanged.
C13_LockFrame ==
    LockChanged => turn.kind \in {"resolved", "multi", "clear"}

\* C13 as amended: the lock changes only in a run that resolved a patient
\* uniquely, made a multi-patient decision, was a Clear click, or was a
\* reply selecting a candidate of the pending disambiguation prompt; each
\* of them changes it in its own way and every other run leaves it as it
\* was.
C13_LockFrameWithSelection ==
    /\ LockChanged =>
          turn.kind \in {"resolved", "multi", "clear", "reply_selected"}
    /\ turn.kind = "clear" =>
          ss_locked_patient = None /\ active_patients = <<>>
    /\ turn.kind = "multi" =>
          ss_locked_patient = None /\ Len(active_patients) >= 2
    /\ (turn.kind = "resolved" /\ LockChanged) =>
          /\ ss_locked_patient # None
          /\ active_patients = <<ss_locked_patient[1]>>
          /\ \/ turn.locked_before = None
             \/ turn.locked_before[1].patient_id
                    # ss_locked_patient[1].patient_id
    /\ turn.kind = "reply_selected" =>
          /\ ss_locked_patient # None
          /\ active_patients = turn.active_before
          /\ awaiting_disambiguation = None

\* a reply that selects a candidate locks it
C13_Witness ==
    /\ turn.kind = "reply_selected"
    /\ turn.locked_before = None
    /\ ss_locked_patient # None
    /\ run = "idle"

TerminalDecision ==
    /\ turn.analyzed
    /\ \/ turn.ambiguous
       \/ turn.intent \in {"patient_specific_not_found",
                           "patient_specific_no_context"}

\* C14: the stream starts only after the analysis has returned and the
\* retrieval of the run is over, and a run whose decision is terminal
\* (candidates, not found, no context) ends with a clarification, without
\* retrieval and without stream.
C14_AnswerAfterRouting ==
    /\ run = "analyze" =>
          ~turn.analyzed /\ turn.retrievals = 0 /\ stage = "idle" /\ ~turn.streamed
    /\ run \in {"retrieve", "build", "assemble"} =>
          turn.analyzed /\ pc = "idle" /\ ~turn.streamed /\ ~TerminalDecision
    /\ turn.streamed =>
          /\ turn.analyzed
          /\ ~TerminalDecision
          /\ turn.kind = "multi" \/ turn.retrievals = 1
    /\ TerminalDecision =>
          /\ run = "idle"
          /\ ~turn.streamed
          /\ turn.retrievals = 0
          /\ stage = "idle"
          /\ turn.clarified
          /\ sent = None
          /\ messages[Len(messages)].role = "assistant"
          /\ messages[Len(messages)].content # AnswerText

\* a run that ended with the list of candidates
C14_Witness ==
    /\ TerminalDecision
    /\ turn.ambiguous
    /\ awaiting_disambiguation # None
    /\ run = "idle"

\* a run that streamed an answer after its retrieval
C14_StreamWitness ==
    /\ turn.streamed
    /\ turn.retrievals = 1
    /\ sent # None

\* C18: the context block handed to the answering step is never the empty
\* string.
C18_ContextBlockNotEmpty == ctx_text # None => ctx_text[1] # <<>>

(***************************************************************************)
(* Replies to a disambiguation prompt: two script runs of a session that   *)
(* is waiting for a reply, over a roster in which two patients share a     *)
(* name.  The pending candidates are those fuzzy_resolve returns for a     *)
(* reference two ids contain or for one only names can match; the session  *)
(* had no patient, one locked patient, or two active patients before.  The *)
(* chat inputs are numbers, ids and parts of names; the oracle answers     *)
(* general or patient_specific.                                            *)
(***************************************************************************)
ReplyRoster == <<Patient(1), Patient(2), Patient(3)>>

\* a number, a number beyond a list of two, an id in capitals, parts of
\* names (one shared by two patients), and a text that matches nothing
ReplyPrompts == {<<"1">>, <<"2">>, <<"A">>, <<"y">>, <<"z">>, <<"q">>}

ReplyResponses ==
    {Response(Some("general"), None, FALSE, None, Some(9))}
    \cup {Response(Some("patient_specific"), pref, TRUE, Some(<<>>), Some(9)) :
             pref \in {Some(<<"a">>), Some(<<"q">>)}}

\* locked_patient and active_patients as earlier runs can have left them
ReplyLocks ==
    {<<None, <<>>>>, <<Some(Patient(2)), <<Patient(2)>>>>,
     <<None, <<Patient(2), Patient(3)>>>>}

InitReply ==
    /\ roster = ReplyRoster
    /\ ResolveIdle
    /\ AnalyzeIdle
    /\ AssembleIdle
    /\ RosterIdle
    /\ \E lk \in ReplyLocks :
          ss_locked_patient = lk[1] /\ active_patients = lk[2]
    /\ \E ref \in {Some(<<"a">>), Some(<<"q">>)} :
          \E sc \in ScorerOutcomes(roster, ref) :
              LET r == fuzzy_resolve(roster, ref, sc)
              IN  /\ r.resolved = None
                  /\ r.candidates # <<>>
                  /\ awaiting_disambiguation = Some(r.candidates)
                  /\ messages =
                        <<Message("user", <<"q">>),
                          Message("assistant",
                                  CandidatesText(ref, r.candidates))>>
    /\ prompt = None
    /\ run = "idle"
    /\ sent = None
    /\ ctx_text = None
    /\ turn = [NoTurn EXCEPT !.n = MaxTurns - 2]

ReplyInput == \E p \in ReplyPrompts : ChatInput(p)
ReplyOracleAnswers == \E rd \in ReplyResponses : Invoke("dict", rd)

NextReply ==
    \/ ClearClicked
    \/ ReplyInput
    \/ ReplyOracleAnswers
    \/ OracleRaises
    \/ OracleNotAnObject
    \/ SinglePatient
    \/ AnalysisRaised
    \/ Route
    \/ RetrieveContext
    \/ Answer

SpecReply == InitReply /\ [][NextReply]_vars

\* a chat input came while a disambiguation was pending
RepliedWhilePending ==
    /\ turn.pending_before # None
    /\ turn.kind # "clear"

\* the text of the chat input of a run that ended with a message of the app
LastInput == messages[Len(messages) - 1].content

\* the candidates of the pending list that the reply matches: by 1-based
\* number, by patient id, or by containment of the reply in the full name or
\* of the full name in the reply, all in lower case
MatchingCandidates ==
    LET cands == turn.pending_before[1]
        reply == Lower(Strip(LastInput))
    IN  {i \in 1..Len(cands) :
            \/ reply = DecStr(i)
            \/ reply = Lower(cands[i].patient_id)
            \/ Contains(Lower(PatientName(cands[i])), reply)
            \/ Contains(reply, Lower(PatientName(cands[i])))}

\* C27: while a disambiguation is pending the run is over and every chat
\* input is handled as a reply without a call of the classifier; a reply
\* that matches a candidate locks the first candidate of the pending list
\* that it matches and clears the pending state; a reply that matches none
\* leaves the pending candidates, locked_patient and active_patients as
\* they were.
C27_PendingReplyHandling ==
    /\ awaiting_disambiguation # None =>
          run = "idle" /\ pc = "idle" /\ awaiting_disambiguation[1] # <<>>
    /\ RepliedWhilePending =>
          /\ turn.kind \in {"reply_selected", "reply_unmatched"}
          /\ ~turn.analyzed
          /\ turn.retrievals = 0
          /\ run = "idle"
          /\ pc = "idle"
          /\ resolverCalls = <<>>
          /\ messages[Len(messages) - 1].role = "user"
          /\ LET cands == turn.pending_before[1]
                 ms == MatchingCandidates
             IN  /\ ms # {} =>
                       /\ turn.kind = "reply_selected"
                       /\ \E i \in ms :
                             /\ \A j \in ms : i <= j
                             /\ ss_locked_patient = Some(cands[i])
                       /\ awaiting_disambiguation = None
                 /\ ms = {} =>
                       /\ turn.kind = "reply_unmatched"
                       /\ awaiting_disambiguation = turn.pending_before
                       /\ ss_locked_patient = turn.locked_before
                       /\ active_patients = turn.active_before
    /\ turn.kind \in {"reply_selected", "reply_unmatched"} =>
          turn.pending_before # None

\* the reply matches two candidates by name; the first of the list is locked
C27_Witness ==
    /\ RepliedWhilePending
    /\ Cardinality(MatchingCandidates) = 2
    /\ turn.kind = "reply_selected"
    /\ ss_locked_patient # turn.locked_before

\* the reply is the number of the second candidate
C27_NumberWitness ==
    /\ RepliedWhilePending
    /\ LastInput = <<"2">>
    /\ Len(turn.pending_before[1]) >= 2
    /\ ss_locked_patient = Some(turn.pending_before[1][2])

\* the reply is the id of a candidate, in capitals
C27_IdWitness ==
    /\ RepliedWhilePending
    /\ LastInput = <<"A">>
    /\ turn.kind = "reply_selected"

\* a second reply that matches none, with a patient locked before
C27_UnmatchedWitness ==
    /\ RepliedWhilePending
    /\ turn.kind = "reply_unmatched"
    /\ turn.locked_before # None
    /\ turn.n = MaxTurns

\* C26: whenever locked_patient is set, the displayed active_patients list
\* is empty or exactly [locked_patient].
C26_ActiveMatchesLock ==
    ss_locked_patient # None =>
        active_patients \in {<<>>, <<ss_locked_patient[1]>>}

(***************************************************************************)
(* One chat input late in a session: the conversation so far is drawn in   *)
(* the initial state, as left by earlier runs that were answered (a user   *)
(* and an assistant message) or died in the analysis (a user message       *)
(* only), with no patient locked.                                          *)
(***************************************************************************)
MaxPastRuns == 5        \* earlier script runs of the drawn conversation

PastUser(k) == Message("user", <<"question ">> \o DecStr(k))
PastAnswer(k) == Message("assistant", <<"answer ">> \o DecStr(k))

RECURSIVE PastHistories(_)
PastHistories(k) ==
    IF k = 0 THEN {<<>>}
    ELSE {h \o <<PastUser(k), PastAnswer(k)>> : h \in PastHistories(k - 1)}
         \cup {h \o <<PastUser(k)>> : h \in PastHistories(k - 1)}

InitHistory ==
    /\ roster = SessionRoster
    /\ ResolveIdle
    /\ AnalyzeIdle
    /\ AssembleIdle
    /\ RosterIdle
    /\ ss_locked_patient = None
    /\ active_patients = <<>>
    /\ \E k \in 0..MaxPastRuns : messages \in PastHistories(k)
    /\ awaiting_disambiguation = None
    /\ prompt = None
    /\ run = "idle"
    /\ sent = None
    /\ ctx_text = None
    /\ turn = [NoTurn EXCEPT !.n = MaxTurns - 1]

NextHistory ==
    \/ UserInput
    \/ SessionOracleAnswers
    \/ OracleRaises
    \/ OracleNotAnObject
    \/ FallbackAndDedup
    \/ ResolveNextRef
    \/ MultiFinish
    \/ SinglePatient
    \/ AnalysisRaised
    \/ Route
    \/ RetrieveContext
    \/ SessionMatchPatientChunks
    \/ SessionEmergencyQuery
    \/ EmergencyNotNeeded
    \/ Interleave
    \/ Answer

SpecHistory == InitHistory /\ [][NextHistory]_vars

\* the index in messages of the user message of the run that was answered
\* last (the answer follows it)
InFlight == Len(messages) - 1

\* C17: the list handed to the answering step is the system message, then
\* the last 7 (or all, if fewer) of the messages that precede the in-flight
\* user message, in their order, then one user message carrying the
\* context and the in-flight question, which appears nowhere else.
C17_BoundedRecentHistory ==
    sent # None =>
        LET s == sent[1]
            prior == SubSeq(messages, 1, InFlight - 1)
            k == Len(s) - 2
        IN  /\ k = Min(7, Len(prior))
            /\ s[1].role = "system"
            /\ \A i \in 1..k : s[1 + i] = prior[Len(prior) - k + i]
            /\ s[Len(s)] =
                  Message("user",
                          <<"CONTEXT:\n">> \o ctx_text[1] \o <<"\n\nQUESTION: ">>
                          \o messages[InFlight].content \o <<"\nAnswer:">>)
            /\ messages[InFlight].role = "user"
            /\ \A i \in 2..(Len(s) - 1) :
                  s[i].content # messages[InFlight].content

\* ten earlier messages: the three oldest are dropped
C17_Witness ==
    /\ sent # None
    /\ InFlight = 11
    /\ Len(sent[1]) = 9
    /\ sent[1][2] = messages[4]
    /\ sent[1][8] = messages[10]

====
